---- MODULE Spec2Model ----
(***************************************************************************)
(* A model of sketchboard's SVG renderer (render.ts with the pro style),   *)
(* of the viewer's connector resolver and zoom (viewer.ts), of the canvas  *)
(* store behind the draw route (canvas-do.ts, index.ts) and of the helpers *)
(* they rest on.  Markup is modelled as a sequence of element records;     *)
(* numbers that the code prints are modelled exactly (rationals, or the    *)
(* terms the code computes them from).                                     *)
(***************************************************************************)
EXTENDS Integers, Sequences, FiniteSets, TLC

\* The element of a one-element set.  Val({e : x \in {v}}) is e with x naming the
\* value of v, computed once however often e uses it.
Val(S) == CHOOSE v \in S : TRUE

Max2(a, b) == IF a >= b THEN a ELSE b
Min2(a, b) == IF a <= b THEN a ELSE b

(***************************************************************************)
(* seededRandom: seed = (seed * 1103515245 + 12345) & 0x7fffffff, in       *)
(* IEEE-754 double arithmetic.  The product exceeds 2^53, so it is rounded *)
(* to 53 significant bits (ties to even), and so is the sum; the bitwise   *)
(* and then takes the value modulo 2^31.  Numbers wider than 31 bits are   *)
(* little-endian sequences of 15-bit limbs.                                *)
(***************************************************************************)
LimbBits == 15
LimbBase == 32768
MantissaBits == 53

LcgMul == <<20077, 908, 1>>     \* 1103515245 = 20077 + 908*2^15 + 1*2^30
LcgInc == 12345
LcgMask == 2147483647           \* 0x7fffffff

RECURSIVE Trim(_)
Trim(x) ==
  Val({IF Len(v) > 1 /\ v[Len(v)] = 0 THEN Trim(SubSeq(v, 1, Len(v) - 1)) ELSE v : v \in {x}})

\* A natural below 2^31 as limbs.
ToLimbs(n) == Trim(<<n % LimbBase, (n \div LimbBase) % LimbBase, n \div (LimbBase * LimbBase)>>)

Limb(x, i) == IF i >= 1 /\ i <= Len(x) THEN x[i] ELSE 0

RECURSIVE AddLimbs(_, _, _, _)
AddLimbs(x, y, i, carry) ==
  IF i > Max2(Len(x), Len(y))
  THEN (IF carry = 0 THEN <<>> ELSE <<carry>>)
  ELSE Val({<<s % LimbBase>> \o AddLimbs(x, y, i + 1, s \div LimbBase) :
            s \in {Limb(x, i) + Limb(y, i) + carry}})

Add(x, y) == Val({Trim(AddLimbs(a, b, 1, 0)) : a \in {x}, b \in {y}})

RECURSIVE MulDigitFrom(_, _, _, _)
MulDigitFrom(x, d, i, carry) ==
  IF i > Len(x)
  THEN (IF carry = 0 THEN <<>> ELSE <<carry>>)
  ELSE Val({<<p % LimbBase>> \o MulDigitFrom(x, d, i + 1, p \div LimbBase) :
            p \in {x[i] * d + carry}})

Zeros(n) == [i \in 1..n |-> 0]

RECURSIVE MulFrom(_, _, _)
MulFrom(x, y, j) ==
  IF j > Len(y) THEN <<0>>
  ELSE Add(Zeros(j - 1) \o MulDigitFrom(x, y[j], 1, 0), MulFrom(x, y, j + 1))

Mul(x, y) == Val({Trim(MulFrom(a, b, 1)) : a \in {x}, b \in {y}})

RECURSIVE BitLenInt(_)
BitLenInt(n) == IF n = 0 THEN 0 ELSE 1 + BitLenInt(n \div 2)

BitLen(x) == Val({(Len(t) - 1) * LimbBits + BitLenInt(t[Len(t)]) : t \in {Trim(x)}})

\* Bit k (from 0) of x.
Bit(x, k) == (Limb(x, (k \div LimbBits) + 1) \div (2 ^ (k % LimbBits))) % 2

\* x mod 2^k, for k <= 30, as an integer.
LowInt(x, k) == (Limb(x, 1) + LimbBase * Limb(x, 2)) % (2 ^ k)

\* x with its k lowest bits cleared.
ClearLow(x, k) ==
  [i \in 1..Len(x) |->
     IF i * LimbBits <= k THEN 0
     ELSE IF (i - 1) * LimbBits >= k THEN x[i]
     ELSE x[i] - (x[i] % (2 ^ (k - (i - 1) * LimbBits)))]

Pow2Limbs(k) == Zeros(k \div LimbBits) \o <<2 ^ (k % LimbBits)>>

\* The nearest double of a natural: 53 significant bits, ties to even.
RoundDouble(x) ==
  Val({IF k <= 0 THEN Trim(v)
       ELSE LET low  == LowInt(v, k)
                half == 2 ^ (k - 1)
                up   == low > half \/ (low = half /\ Bit(v, k) = 1)
            IN IF up THEN Add(ClearLow(v, k), Pow2Limbs(k)) ELSE Trim(ClearLow(v, k)) :
       v \in {x}, k \in {BitLen(x) - MantissaBits}})

\* (x & 0x7fffffff) of a natural double: its value modulo 2^31.
And31(x) ==
  Val({Limb(v, 1) + LimbBase * Limb(v, 2) + (LimbBase * LimbBase) * (Limb(v, 3) % 2) :
       v \in {x}})

\* One step of the generator from the state (or the initial seed) given as limbs.
LcgStep(x) == And31(RoundDouble(Add(RoundDouble(Mul(x, LcgMul)), ToLimbs(LcgInc))))

\* The limbs of hi * 2^31 + lo.
PairLimbs(hi, lo) ==
  Trim(<<lo % LimbBase, (lo \div LimbBase) % LimbBase,
         (lo \div 1073741824) + 2 * (hi % 16384), hi \div 16384>>)

\* Bit length of a natural below 2^31.
BitLen31(n) ==
  Val({IF m >= 65536
       THEN (IF m >= 16777216
             THEN (IF m >= 268435456
                   THEN (IF m >= 1073741824 THEN 31 ELSE IF m >= 536870912 THEN 30 ELSE 29)
                   ELSE (IF m >= 134217728 THEN 28 ELSE IF m >= 67108864 THEN 27
                         ELSE IF m >= 33554432 THEN 26 ELSE 25))
             ELSE (IF m >= 1048576
                   THEN (IF m >= 8388608 THEN 24 ELSE IF m >= 4194304 THEN 23
                         ELSE IF m >= 2097152 THEN 22 ELSE 21)
                   ELSE (IF m >= 524288 THEN 20 ELSE IF m >= 262144 THEN 19
                         ELSE IF m >= 131072 THEN 18 ELSE 17)))
       ELSE BitLenInt(m) :
       m \in {n}})

\* Faulty variant of RoundPair: exact arithmetic, no rounding to 53 bits.
RoundPairExact(hi, lo) == <<hi, lo>>

\* RoundDouble on the pair <<hi, lo>> standing for hi * 2^31 + lo (hi, lo < 2^31).
RoundPair(hi, lo) ==
  Val({LET L == IF h = 0 THEN 0 ELSE 31 + BitLen31(h)
           k == L - MantissaBits
       IN IF k <= 0 THEN <<h, l>>
          ELSE LET p    == 2 ^ k
                   low  == l % p
                   half == p \div 2
                   up   == low > half \/ (low = half /\ (l \div p) % 2 = 1)
                   base == l - low
               IN IF ~up THEN <<h, base>>
                  ELSE IF base - 1073741824 = 1073741824 - p THEN <<h + 1, 0>>
                  ELSE <<h, base + p>> :
       h \in {hi}, l \in {lo}})

AddPair(hi, lo, c) ==
  Val({IF l > LcgMask - c THEN <<h + 1, (l - 1073741824) + c - 1073741824>> ELSE <<h, l + c>> :
       h \in {hi}, l \in {lo}})

\* The generator's next state from a state below 2^31: the same computation as
\* LcgStep, on the limbs of s written out (the product is below 2^62).
Lcg(s) ==
  Val({LET c0 == s0 * 20077
           t1 == s0 * 908 + s1 * 20077 + (c0 \div LimbBase)
           t2 == s0 + 908 * s1 + 20077 * s2 + (t1 \div LimbBase)
           t3 == s1 + 908 * s2 + (t2 \div LimbBase)
           t4 == s2 + (t3 \div LimbBase)
           d2 == t2 % LimbBase
           lo == (c0 % LimbBase) + LimbBase * (t1 % LimbBase) + 1073741824 * (d2 % 2)
           hi == (d2 \div 2) + 16384 * (t3 % LimbBase) + 536870912 * t4
       IN Val({Val({RoundPair(r2[1], r2[2])[2] : r2 \in {AddPair(r1[1], r1[2], LcgInc)}}) :
               r1 \in {RoundPair(hi, lo)}}) :
       s0 \in {s % LimbBase}, s1 \in {(s \div LimbBase) % LimbBase},
       s2 \in {s \div 1073741824}})

\* s * 1103515245 for 0 <= s < 2^31, as the pair <<hi, lo>>.
LcgProduct(s) ==
  Val({LET c0 == s0 * 20077
           t1 == s0 * 908 + s1 * 20077 + (c0 \div LimbBase)
           t2 == s0 + 908 * s1 + 20077 * s2 + (t1 \div LimbBase)
           t3 == s1 + 908 * s2 + (t2 \div LimbBase)
           t4 == s2 + (t3 \div LimbBase)
           d2 == t2 % LimbBase
       IN <<(d2 \div 2) + 16384 * (t3 % LimbBase) + 536870912 * t4,
            (c0 % LimbBase) + LimbBase * (t1 % LimbBase) + 1073741824 * (d2 % 2)>> :
       s0 \in {s % LimbBase}, s1 \in {(s \div LimbBase) % LimbBase},
       s2 \in {s \div 1073741824}})

\* hi * 2^31 + lo - c, for a pair that stands for c or more.
SubPair(hi, lo, c) ==
  Val({IF l >= c THEN <<h, l - c>> ELSE <<h - 1, l + (LcgMask - c) + 1>> :
       h \in {hi}, l \in {lo}})

\* The generator's first state from the negative seed -m, 0 < m < 2^31: rounding is
\* symmetric, so the sum is -(round(round(m * 1103515245) - 12345)), and the bitwise
\* and of a negative number takes the two's complement's low 31 bits.
LcgNeg(m) ==
  Val({IF l = 0 THEN 0 ELSE (LcgMask - l) + 1 :
       l \in {Val({Val({RoundPair(r2[1], r2[2])[2] : r2 \in {SubPair(r1[1], r1[2], LcgInc)}}) :
                    r1 \in {Val({RoundPair(pr[1], pr[2]) : pr \in {LcgProduct(m)}})}})}})

\* seededRandom(seed): the closure's state is s = <<hi, lo>>, standing for
\* hi * 2^31 + lo (a seed may be wider than 31 bits; a state after a call is not).
\* The value is the state after one call of rand(), which returns it / 0x7fffffff.
seededRandom(s) ==
  Val({IF seed[1] = 0 THEN Lcg(seed[2]) ELSE LcgStep(PairLimbs(seed[1], seed[2])) :
       seed \in {s}})

\* A state below 2^31 as a generator state.
StateOf(v) == <<0, v>>

\* The states after each of the next n calls of rand(), from the state v < 2^31.
RECURSIVE Draws(_, _)
Draws(v, n) ==
  IF n = 0 THEN <<>>
  ELSE IF n = 1 THEN <<Lcg(v)>>
  ELSE Val({a \o Draws(a[Len(a)], n - (n \div 2)) : a \in {Draws(v, n \div 2)}})

\* The states after each of the next n calls of rand(), from the generator state s.
Stream(s, n) ==
  IF n = 0 THEN <<>>
  ELSE Val({<<first>> \o Draws(first, n - 1) : first \in {seededRandom(s)}})

(***************************************************************************)
(* JavaScript numbers where the code divides: a rational n/d with d > 0,   *)
(* or d = 0 for the non-finite values (n = 1: Infinity, n = -1: -Infinity, *)
(* n = 0: NaN).  Rounding of finite doubles is not modelled.               *)
(***************************************************************************)
RECURSIVE Gcd(_, _)
Gcd(a, b) == IF b = 0 THEN a ELSE Gcd(b, a % b)

Abs(a) == IF a < 0 THEN -a ELSE a
Sign(a) == IF a > 0 THEN 1 ELSE IF a < 0 THEN -1 ELSE 0

NaN == [n |-> 0, d |-> 0]
Infinity == [n |-> 1, d |-> 0]

\* The number n/d in lowest terms, for d # 0.
Rat(n, d) ==
  LET g == Gcd(Abs(n), Abs(d))
  IN [n |-> Sign(d) * (n \div g), d |-> Abs(d) \div g]

Num(i) == [n |-> i, d |-> 1]

IsNaN(a) == a.d = 0 /\ a.n = 0
IsFinite(a) == a.d # 0

\* a * b and a / b as JavaScript computes them.
NumMul(a, b) ==
  IF IsNaN(a) \/ IsNaN(b) THEN NaN
  ELSE IF a.d = 0 \/ b.d = 0
       THEN [n |-> Sign(a.n) * Sign(b.n), d |-> 0]   \* Infinity * 0 = NaN
       ELSE Rat(a.n * b.n, a.d * b.d)

NumDiv(a, b) ==
  IF IsNaN(a) \/ IsNaN(b) THEN NaN
  ELSE IF a.d = 0 THEN (IF b.d = 0 THEN NaN ELSE [n |-> a.n * (IF b.n < 0 THEN -1 ELSE 1), d |-> 0])
  ELSE IF b.d = 0 THEN Num(0)
  ELSE IF b.n = 0 THEN [n |-> Sign(a.n), d |-> 0]    \* x / 0 = +-Infinity, 0 / 0 = NaN
  ELSE Rat(a.n * b.d, a.d * b.n)

\* a < b on non-NaN numbers.
NumLess(a, b) ==
  IF a.d = 0 /\ b.d = 0 THEN a.n < b.n
  ELSE IF a.d = 0 THEN a.n < 0
  ELSE IF b.d = 0 THEN b.n > 0
  ELSE a.n * b.d < b.n * a.d

\* Math.min of two numbers: NaN if either is NaN.
NumMin(a, b) ==
  IF IsNaN(a) \/ IsNaN(b) THEN NaN ELSE IF NumLess(b, a) THEN b ELSE a

NegInfinity == [n |-> -1, d |-> 0]

\* a + b where b is finite.
NumAdd(a, b) == IF a.d = 0 THEN a ELSE Rat(a.n * b.d + b.n * a.d, a.d * b.d)

\* a - b: Infinity - Infinity is NaN.
NumSub(a, b) ==
  IF IsNaN(a) \/ IsNaN(b) THEN NaN
  ELSE IF b.d = 0 THEN (IF a.d = 0 /\ a.n = b.n THEN NaN ELSE [n |-> -b.n, d |-> 0])
  ELSE NumAdd(a, [n |-> -b.n, d |-> b.d])

\* Math.max of two numbers.
NumMax(a, b) ==
  IF IsNaN(a) \/ IsNaN(b) THEN NaN ELSE IF NumLess(a, b) THEN b ELSE a

(***************************************************************************)
(* Strings the code takes apart are sequences of one-character strings.    *)
(***************************************************************************)
NL == "\n"

\* text.split('\n'): the lines of a string (at least one, possibly empty).
RECURSIVE Split(_)
Split(text) ==
  IF \A i \in 1..Len(text) : text[i] # NL THEN <<text>>
  ELSE LET i == CHOOSE j \in 1..Len(text) :
                  text[j] = NL /\ \A k \in 1..(j - 1) : text[k] # NL
       IN <<SubSeq(text, 1, i - 1)>> \o Split(SubSeq(text, i + 1, Len(text)))

\* lines.reduce((a, b) => a.length > b.length ? a : b, ''): the last longest line.
RECURSIVE LongestLine(_, _, _)
LongestLine(lines, i, acc) ==
  IF i > Len(lines) THEN acc
  ELSE LongestLine(lines, i + 1, IF Len(acc) > Len(lines[i]) THEN acc ELSE lines[i])

\* escapeXml: the five markup characters become entities.
EscapeChar(c) ==
  CASE c = "&" -> <<"&", "a", "m", "p", ";">>
    [] c = "<" -> <<"&", "l", "t", ";">>
    [] c = ">" -> <<"&", "g", "t", ";">>
    [] c = "\"" -> <<"&", "q", "u", "o", "t", ";">>
    [] c = "'" -> <<"&", "a", "p", "o", "s", ";">>
    [] OTHER -> <<c>>

RECURSIVE escapeXml(_)
escapeXml(str) ==
  IF Len(str) = 0 THEN <<>>
  ELSE IF Len(str) = 1 THEN EscapeChar(str[1])
  ELSE escapeXml(SubSeq(str, 1, Len(str) \div 2))
         \o escapeXml(SubSeq(str, Len(str) \div 2 + 1, Len(str)))

\* calcFontSize(text, maxWidth, maxHeight, baseSize): maxWidth, maxHeight and
\* baseSize are numbers; the result is a number.
calcFontSize(text, maxWidth, maxHeight, baseSize) ==
  LET lines          == Split(text)
      longestLine    == LongestLine(lines, 1, <<>>)
      charWidthRatio == Rat(55, 100)
      lineHeightRatio == Rat(13, 10)
      maxFontByWidth  == NumDiv(NumMul(maxWidth, Rat(85, 100)),
                                NumMul(Num(Len(longestLine)), charWidthRatio))
      maxFontByHeight == NumDiv(NumMul(maxHeight, Rat(7, 10)),
                                NumMul(Num(Len(lines)), lineHeightRatio))
  IN NumMin(NumMin(NumMin(baseSize, maxFontByWidth), maxFontByHeight), Num(20))

\* The default of calcFontSize's baseSize parameter.
DefaultBaseSize == 16

(***************************************************************************)
(* Shapes (types.ts).  An optional field is <<>> when absent and <<v>> when *)
(* present.  A shape's x, y, width and height are integers; the numbers    *)
(* the renderer prints are in hundredths (x + w/2 is 100*x + 50*w), so     *)
(* that the code's decimal factors stay exact.  The coordinates of a point *)
(* of a line or arrow are in hundredths too: an anchor point is x + w/2.   *)
(***************************************************************************)
None == <<>>
Some(v) == <<v>>
IsSome(o) == o # <<>>
\* o ?? dflt
OrElse(o, dflt) == IF o = <<>> THEN dflt ELSE o[1]

H(v) == 100 * v
\* v * p/100 for v in hundredths of an integer.
Pct(v, p) == (v * p) \div 100

BoxTypes == {"rectangle", "ellipse", "diamond", "cylinder", "cloud", "hexagon",
             "document", "person", "callout"}
PathTypes == {"line", "arrow"}
ShapeTypes == BoxTypes \cup PathTypes \cup {"text"}

\* A shape with every optional field absent.
BaseShape(id, type, x, y) ==
  [id |-> id, type |-> type, x |-> x, y |-> y,
   strokeColor |-> None, fillColor |-> None, strokeWidth |-> None, opacity |-> None,
   width |-> None, height |-> None, label |-> None,
   points |-> None, startBinding |-> None, endBinding |-> None,
   curved |-> FALSE, dashed |-> FALSE, arrowHead |-> None, arrowTail |-> None,
   labelPosition |-> None, labelOffset |-> None,
   text |-> None, fontSize |-> None, fontFamily |-> None,
   pointerX |-> None, pointerY |-> None]

Box(id, type, x, y, w, h) ==
  [BaseShape(id, type, x, y) EXCEPT !.width = Some(w), !.height = Some(h)]

Pt(x, y) == [x |-> x, y |-> y]
\* The point (x, y) of integer coordinates.
P(x, y) == Pt(H(x), H(y))

\* Faulty variant of HasLabel: an empty label counts as a label.
HasLabelPresent(shape) == IsSome(shape.label)

\* if (shape.label): a label that is present and not the empty string.
HasLabel(shape) == IsSome(shape.label) /\ shape.label[1] # <<>>

(***************************************************************************)
(* Geometry primitives.  rand is the generator's state s, threaded through *)
(* every builder: a builder returns its path d and the state after its     *)
(* draws.  A draw r stands for the value r / 0x7fffffff.                   *)
(***************************************************************************)
\* base + (rand() - 0.5) * amount: the draw r leaves no trace when amount is 0.
Jit(base, r, amount) == IF amount = 0 THEN <<base, 0, 0>> ELSE <<base, r, amount>>

\* jitter(x, y, amount, rand) with the two draws r1, r2.
jitter(x, y, amount, r1, r2) == [x |-> Jit(x, r1, amount), y |-> Jit(y, r2, amount)]

\* (a + b) / 2 + (rand() - 0.5) * amount
MidJit(a, b, r, amount) == <<"mid", a, b, Jit(0, r, amount)>>

roughLine(x1, y1, x2, y2, s, roughness) ==
  Val({LET jitterAmount == roughness * 2
           p1 == jitter(x1, y1, jitterAmount, r[1], r[2])
           p2 == jitter(x2, y2, jitterAmount, r[3], r[4])
           midX == MidJit(p1.x, p2.x, r[5], roughness * 3)
           midY == MidJit(p1.y, p2.y, r[6], roughness * 3)
       IN [d |-> <<"M", p1.x, p1.y, "Q", midX, midY, p2.x, p2.y>>, s |-> StateOf(r[6])] :
       r \in {Stream(s, 6)}})

\* A chain of roughLine calls over the segments segs (each <<x1, y1, x2, y2>>),
\* joined in order: what the builders' successive paths.push(roughLine(...)) do.
RECURSIVE roughLines(_, _, _)
roughLines(segs, s, roughness) ==
  IF Len(segs) = 0 THEN [d |-> <<>>, s |-> s]
  ELSE Val({Val({[d |-> l.d \o rest.d, s |-> rest.s] :
                  rest \in {roughLines(Tail(segs), l.s, roughness)}}) :
            l \in {roughLine(segs[1][1], segs[1][2], segs[1][3], segs[1][4], s, roughness)}})

roughRect(x, y, w, h, s, roughness) ==
  roughLines(<< <<x, y, x + w, y>>, <<x + w, y, x + w, y + h>>,
                <<x + w, y + h, x, y + h>>, <<x, y + h, x, y>> >>, s, roughness)

EllipseSteps == 24

roughEllipse(cx, cy, rx, ry, s, roughness) ==
  Val({LET steps  == EllipseSteps
           jitterAmount == roughness * 2
           \* points[i] for i = 0..steps is point(i); its angle is i/steps of a turn
           point(i) == [x |-> Jit(<<"cos", i, cx, rx>>, r[2 * i + 1], jitterAmount),
                        y |-> Jit(<<"sin", i, cy, ry>>, r[2 * i + 2], jitterAmount)]
           o      == 2 * (steps + 1)
           seg(i) == <<"Q", MidJit(point(i - 1).x, point(i).x, r[o + 2 * i - 1], roughness),
                            MidJit(point(i - 1).y, point(i).y, r[o + 2 * i], roughness),
                       point(i).x, point(i).y>>
       IN [d |-> <<"M", point(0).x, point(0).y>> \o [i \in 1..steps |-> seg(i)] \o <<"Z">>,
           s |-> StateOf(r[Len(r)])] :
       r \in {Stream(s, 2 * (EllipseSteps + 1) + 2 * EllipseSteps)}})

roughDiamond(x, y, w, h, s, roughness) ==
  LET cx == x + w \div 2
      cy == y + h \div 2
  IN roughLines(<< <<cx, y, x + w, cy>>, <<x + w, cy, cx, y + h>>,
                   <<cx, y + h, x, cy>>, <<x, cy, cx, y>> >>, s, roughness)

\* arrowHead(x, y, angle, size, style); angle is atan2(dy, dx), kept as <<dy, dx>>.
arrowHead(x, y, angle, size, style) ==
  CASE style = "triangle" -> <<"head-triangle", x, y, angle, size>>
    [] style = "diamond"  -> <<"head-diamond", x, y, angle, size>>
    [] style = "circle"   -> <<"head-circle", x, y, size>>
    [] style = "none"     -> <<>>
    [] OTHER              -> <<"head-arrow", x, y, angle, size>>

\* curvedPath(points, rand, roughness), for rough arrows.
curvedPath(points, s, roughness) ==
  IF Len(points) < 2 THEN [d |-> <<>>, s |-> s]
  ELSE IF Len(points) = 2
  THEN Val({LET p1 == points[1]
                p2 == points[2]
                midX == MidJit(p1.x, p2.x, r[1], roughness * 5)
                midY == MidJit(p1.y, p2.y, r[2], roughness * 5)
            IN [d |-> <<"M", p1.x, p1.y, "Q", <<"perp", midX, midY, p2.x - p1.x, p2.y - p1.y>>,
                        p2.x, p2.y>>,
                s |-> StateOf(r[2])] :
            r \in {Stream(s, 2)}})
  ELSE LET n == Len(points)
           seg(i) == <<"Q", points[i].x, points[i].y,
                       (points[i].x + points[i + 1].x) \div 2,
                       (points[i].y + points[i + 1].y) \div 2>>
       IN [d |-> <<"M", points[1].x, points[1].y>> \o [i \in 1..(n - 2) |-> seg(i + 1)]
                   \o <<"Q", points[n - 1].x, points[n - 1].y, points[n].x, points[n].y>>,
           s |-> s]

roughCylinder(x, y, w, h, s, roughness) ==
  LET ellipseH == Pct(h, 15)
      cx       == x + w \div 2
      bottom   == <<"cylinder-bottom", x, y, w, h>>
  IN Val({Val({Val({[d |-> top.d \o leftSide.d \o rightSide.d \o bottom, s |-> rightSide.s] :
                    rightSide \in {roughLine(x + w, y + ellipseH, x + w, y + h - ellipseH,
                                             leftSide.s, roughness)}}) :
               leftSide \in {roughLine(x, y + ellipseH, x, y + h - ellipseH, top.s, roughness)}}) :
          top \in {roughEllipse(cx, y + ellipseH, w \div 2, ellipseH, s, roughness)}})

CloudBumps == 8

roughCloud(x, y, w, h, s, roughness) ==
  Val({LET numBumps == CloudBumps
      cx == x + w \div 2
      cy == y + h \div 2
      rx == w \div 2
      ry == h \div 2
      \* bumps[i] for i = 0..7: bumpSize = 0.8 + rand() * 0.4, then the two jitters
      bump(i) == [x |-> Jit(<<"cos-bump", i, cx, rx, r[3 * i + 1]>>, r[3 * i + 2], roughness * 3),
                  y |-> Jit(<<"sin-bump", i, cy, ry, r[3 * i + 1]>>, r[3 * i + 3], roughness * 3)]
      o  == 3 * numBumps
      seg(i) == LET curr == bump(i)
                    next == bump((i + 1) % numBumps)
                IN <<"Q", MidJit(curr.x, next.x, r[o + 2 * i + 1], Pct(w, 30)),
                          MidJit(curr.y, next.y, r[o + 2 * i + 2], Pct(h, 30)),
                     next.x, next.y>>
  IN [d |-> <<"M", bump(0).x, bump(0).y>> \o [i \in 1..numBumps |-> seg(i - 1)],
      s |-> StateOf(r[Len(r)])] :
  r \in {Stream(s, 3 * CloudBumps + 2 * CloudBumps)}})

roughHexagon(x, y, w, h, s, roughness) ==
  LET cy    == y + h \div 2
      inset == Pct(w, 25)
  IN roughLines(<< <<x + inset, y, x + w - inset, y>>, <<x + w - inset, y, x + w, cy>>,
                   <<x + w, cy, x + w - inset, y + h>>, <<x + w - inset, y + h, x + inset, y + h>>,
                   <<x + inset, y + h, x, cy>>, <<x, cy, x + inset, y>> >>, s, roughness)

roughDocument(x, y, w, h, s, roughness) ==
  LET waveH == Pct(h, 10)
  IN Val({Val({[d |-> a.d \o <<"document-wave", x, y, w, h>> \o b.d, s |-> b.s] :
               b \in {roughLine(x, y + h - waveH, x, y, a.s, roughness)}}) :
          a \in {roughLines(<< <<x, y, x + w, y>>, <<x + w, y, x + w, y + h - waveH>> >>,
                            s, roughness)}})

roughPerson(x, y, w, h, s, roughness) ==
  LET headR      == Pct(Min2(w, h), 20)
      cx         == x + w \div 2
      headY      == y + headR
      bodyTop    == y + headR * 2 + H(5)
      bodyBottom == y + Pct(h, 65)
      footY      == y + h
  IN Val({Val({[d |-> head.d \o rest.d, s |-> rest.s] :
               rest \in {roughLines(<< <<cx, bodyTop, cx, bodyBottom>>,
                                       <<cx, bodyTop + H(10), x, bodyTop + H(30)>>,
                                       <<cx, bodyTop + H(10), x + w, bodyTop + H(30)>>,
                                       <<cx, bodyBottom, x + Pct(w, 20), footY>>,
                                       <<cx, bodyBottom, x + Pct(w, 80), footY>> >>,
                                    head.s, roughness)}}) :
          head \in {roughEllipse(cx, headY, headR, headR, s, roughness)}})

\* roughCallout draws nothing from rand and ignores roughness.
roughCallout(x, y, w, h, px, py, s, roughness) ==
  LET pointerX == IF px # 0 THEN px ELSE x + Pct(w, 20)     \* px || x + w * 0.2
      pointerY == IF py # 0 THEN py ELSE y + h + H(20)
  IN [d |-> <<"callout", x, y, w, h, Pct(Min2(w, h), 10), pointerX, pointerY>>, s |-> s]

(***************************************************************************)
(* Markup.  A rendered shape is a sequence of element records in document  *)
(* order; an attribute the code prints is a field of the record.           *)
(***************************************************************************)
\* String.prototype.toLowerCase on the colour literals the model uses.
ToLowerCase(c) ==
  CASE c = "#DBEAFE" -> "#dbeafe"
    [] c = "#F87171" -> "#f87171"
    [] c = "#FFFFFF" -> "#ffffff"
    [] OTHER -> c

\* A string option that is present and not empty (JavaScript truthiness).
Truthy(o) == IsSome(o) /\ o[1] # ""

DarkToLight ==
  << <<"#ffffff", "#1e1e1e">>, <<"#e0e0e0", "#1e1e1e">>, <<"#94a3b8", "#475569">>,
     <<"#64748b", "#334155">>, <<"#f87171", "#dc2626">>, <<"#fb923c", "#ea580c">>,
     <<"#fbbf24", "#d97706">>, <<"#facc15", "#ca8a04">>, <<"#34d399", "#059669">>,
     <<"#22c55e", "#16a34a">>, <<"#60a5fa", "#2563eb">>, <<"#3b82f6", "#1d4ed8">>,
     <<"#c084fc", "#9333ea">>, <<"#a855f7", "#7c3aed">>, <<"#f472b6", "#db2777">>,
     <<"#ec4899", "#be185d">> >>

lightModeColor(color) ==
  LET lower == ToLowerCase(color)
      hits  == {i \in 1..Len(DarkToLight) : DarkToLight[i][1] = lower}
  IN IF hits = {} THEN color ELSE DarkToLight[CHOOSE i \in hits : TRUE][2]

RoughFont == "Virgil, Segoe UI Emoji, sans-serif"
CleanFont == "Inter, -apple-system, sans-serif"

\* renderMultilineText(cx, cy, text, fontSize, fill, cleanStyle): one text element
\* per line, line i (from 0) at y = startY + i * lineHeight.
renderMultilineText(cx, cy, text, fontSize, fill, cleanStyle) ==
  LET lines == Split(text)
      fontFamily == IF cleanStyle THEN CleanFont ELSE RoughFont
  IN [i \in 1..Len(lines) |->
        [tag |-> "text", x |-> cx, y |-> <<"line-y", cy, fontSize, Len(lines), i - 1>>,
         anchor |-> "middle", baseline |-> "middle", fontFamily |-> fontFamily,
         fontSize |-> fontSize, fill |-> fill, content |-> escapeXml(lines[i])]]

\* if (shape.label) { fontSize = calcFontSize(label, width * pw%, height * ph%); text }
BoxLabel(shape, cx, cy, pw, ph, fill, cleanStyle) ==
  IF HasLabel(shape)
  THEN renderMultilineText(cx, cy, shape.label[1],
         calcFontSize(shape.label[1], Rat(shape.width[1] * pw, 100),
                      Rat(shape.height[1] * ph, 100), Num(DefaultBaseSize)),
         fill, cleanStyle)
  ELSE <<>>

\* The flat fill drawn beneath a rough outline: opacity * 0.3, no stroke.
FlatFill(tag, geom, fill, opacity) ==
  [tag |-> tag, geom |-> geom, fill |-> fill, opacity |-> Pct(opacity, 30), stroke |-> "none"]

\* <path d=... stroke stroke-width opacity fill=.../>
StrokedPath(d, stroke, strokeWidth, opacity, fill, dashed) ==
  [tag |-> "path", d |-> d, stroke |-> stroke, strokeWidth |-> strokeWidth,
   opacity |-> opacity, fill |-> fill, dash |-> IF dashed THEN "8 4" ELSE ""]

\* What a builder returns: the markup, the generator's state after it, and whether
\* it threw (a TypeError on a missing field) instead of returning.
Rendered(svg, s) == [svg |-> svg, s |-> s, threw |-> FALSE]
Threw(s) == [svg |-> <<>>, s |-> s, threw |-> TRUE]

\* Faulty variant of TooFewPoints: only an empty point list of a line is refused.
TooFewPointsEmpty(shape) == Len(shape.points[1]) < (IF shape.type = "line" THEN 1 ELSE 2)

\* shape.points.length < 2: the guard of the line and arrow cases in every style.
TooFewPoints(shape) == Len(shape.points[1]) < 2

\* shape.points.map(p => ({x: shape.x + p.x, y: shape.y + p.y})), in hundredths.
OffsetPoints(shape) ==
  [i \in 1..Len(shape.points[1]) |->
     Pt(H(shape.x) + shape.points[1][i].x, H(shape.y) + shape.points[1][i].y)]

\* The arrow head's fill.
HeadFill(headStyle, stroke) ==
  IF headStyle = "triangle" \/ headStyle = "diamond" THEN stroke ELSE "none"

\* The segments between successive points.
Segments(pts) ==
  [i \in 1..(Len(pts) - 1) |-> <<pts[i].x, pts[i].y, pts[i + 1].x, pts[i + 1].y>>]

\* renderShape's switch for the rough style (roughness in hundredths).
renderRoughShape(shape, s, roughness, stroke, fill, strokeWidth, opacity) ==
  LET x  == H(shape.x)
      y  == H(shape.y)
      w  == H(shape.width[1])
      h  == H(shape.height[1])
      cx == x + w \div 2
      cy == y + h \div 2
      outline(d) == StrokedPath(d, stroke, strokeWidth, opacity, "none", FALSE)
      filled(el) == IF fill # "none" THEN <<el>> ELSE <<>>
  IN CASE shape.type = "rectangle" ->
            LET p == roughRect(x, y, w, h, s, roughness)
            IN Rendered(filled(FlatFill("rect", <<x, y, w, h>>, fill, opacity))
                          \o <<outline(p.d)>>
                          \o BoxLabel(shape, cx, cy, 100, 100, stroke, FALSE), p.s)
       [] shape.type = "ellipse" ->
            LET p == roughEllipse(cx, cy, w \div 2, h \div 2, s, roughness)
            IN Rendered(filled(FlatFill("ellipse", <<cx, cy, w \div 2, h \div 2>>, fill, opacity))
                          \o <<outline(p.d)>>
                          \o BoxLabel(shape, cx, cy, 80, 80, stroke, FALSE), p.s)
       [] shape.type = "diamond" ->
            LET p == roughDiamond(x, y, w, h, s, roughness)
            IN Rendered(filled(FlatFill("polygon", <<cx, y, x + w, cy, cx, y + h, x, cy>>,
                                        fill, opacity))
                          \o <<outline(p.d)>>
                          \o BoxLabel(shape, cx, cy, 60, 60, stroke, FALSE), p.s)
       [] shape.type = "line" ->
            IF ~IsSome(shape.points) THEN Threw(s)
            ELSE IF TooFewPoints(shape) THEN Rendered(<<>>, s)
            ELSE LET p == roughLines(Segments(OffsetPoints(shape)), s, roughness)
                 IN Rendered(<<outline(p.d)>>, p.s)
       [] shape.type = "arrow" ->
            IF ~IsSome(shape.points) THEN Threw(s)
            ELSE IF TooFewPoints(shape) THEN Rendered(<<>>, s)
            ELSE LET pts  == OffsetPoints(shape)
                     p    == IF shape.curved THEN curvedPath(pts, s, roughness)
                             ELSE roughLines(Segments(pts), s, roughness)
                     last == pts[Len(pts)]
                     prev == pts[Len(pts) - 1]
                     angle == <<last.y - prev.y, last.x - prev.x>>
                     headStyle == IF Truthy(shape.arrowHead) THEN shape.arrowHead[1] ELSE "arrow"
                     headPath  == arrowHead(last.x, last.y, angle, 12, headStyle)
                     hasTail   == Truthy(shape.arrowTail) /\ shape.arrowTail[1] # "none"
                     tailAngle == <<pts[1].y - pts[2].y, pts[1].x - pts[2].x>>
                     tailPath  == arrowHead(pts[1].x, pts[1].y, tailAngle, 12, shape.arrowTail[1])
                     headFill  == HeadFill(headStyle, stroke)
                 IN Rendered(
                      <<StrokedPath(p.d, stroke, strokeWidth, opacity, "none", shape.dashed),
                        StrokedPath(headPath, stroke, strokeWidth, opacity, headFill, FALSE)>>
                      \o (IF hasTail
                          THEN <<StrokedPath(tailPath, stroke, strokeWidth, opacity, headFill, FALSE)>>
                          ELSE <<>>),
                      p.s)
       [] shape.type = "text" ->
            IF ~IsSome(shape.text) THEN Threw(s)
            ELSE Rendered(
                   <<[tag |-> "text", x |-> x, y |-> y,
                      fontFamily |-> IF Truthy(shape.fontFamily) THEN shape.fontFamily[1]
                                     ELSE RoughFont,
                      fontSize |-> Num(IF IsSome(shape.fontSize) /\ shape.fontSize[1] # 0
                                       THEN shape.fontSize[1] ELSE 20),
                      fill |-> stroke, opacity |-> opacity,
                      content |-> escapeXml(shape.text[1])]>>, s)
       [] shape.type = "cylinder" ->
            LET p == roughCylinder(x, y, w, h, s, roughness)
            IN Rendered(filled(FlatFill("ellipse", <<cx, y + Pct(h, 15), w \div 2, Pct(h, 15)>>,
                                        fill, opacity))
                          \o filled(FlatFill("rect", <<x, y + Pct(h, 15), w, Pct(h, 70)>>,
                                             fill, opacity))
                          \o <<outline(p.d)>>
                          \o BoxLabel(shape, cx, cy, 80, 50, stroke, FALSE), p.s)
       [] shape.type = "cloud" ->
            LET p == roughCloud(x, y, w, h, s, roughness)
            IN Rendered(filled(FlatFill("path", p.d, fill, opacity))
                          \o <<outline(p.d)>>
                          \o BoxLabel(shape, cx, cy, 60, 50, stroke, FALSE), p.s)
       [] shape.type = "hexagon" ->
            LET p == roughHexagon(x, y, w, h, s, roughness)
                inset == Pct(w, 25)
            IN Rendered(filled(FlatFill("polygon",
                                 <<x + inset, y, x + w - inset, y, x + w, cy,
                                   x + w - inset, y + h, x + inset, y + h, x, cy>>,
                                 fill, opacity))
                          \o <<outline(p.d)>>
                          \o BoxLabel(shape, cx, cy, 50, 70, stroke, FALSE), p.s)
       [] shape.type = "document" ->
            LET p == roughDocument(x, y, w, h, s, roughness)
            IN Rendered(filled(FlatFill("rect", <<x, y, w, Pct(h, 90)>>, fill, opacity))
                          \o <<outline(p.d)>>
                          \o BoxLabel(shape, cx, y + Pct(h, 40), 80, 60, stroke, FALSE), p.s)
       [] shape.type = "person" ->
            LET p == roughPerson(x, y, w, h, s, roughness)
            IN Rendered(<<outline(p.d)>>
                          \o (IF HasLabel(shape)
                              THEN <<[tag |-> "text", x |-> cx, y |-> y + h + H(15),
                                      anchor |-> "middle", fontFamily |-> RoughFont,
                                      fontSize |-> Num(14), fill |-> stroke,
                                      content |-> escapeXml(shape.label[1])]>>
                              ELSE <<>>), p.s)
       [] shape.type = "callout" ->
            LET px == IF IsSome(shape.pointerX) THEN H(shape.pointerX[1]) ELSE x + Pct(w, 20)
                py == IF IsSome(shape.pointerY) THEN H(shape.pointerY[1]) ELSE y + h + H(20)
                p  == roughCallout(x, y, w, h, px, py, s, roughness)
            IN Rendered(filled(FlatFill("path", p.d, fill, opacity))
                          \o <<outline(p.d)>>
                          \o BoxLabel(shape, cx, cy, 80, 70, stroke, FALSE), p.s)
       [] OTHER -> Rendered(<<>>, s)

\* An element of the clean style: <tag geometry fill stroke stroke-width opacity/>.
CleanEl(tag, geom, fill, stroke, strokeWidth, opacity) ==
  [tag |-> tag, geom |-> geom, fill |-> fill, stroke |-> stroke,
   strokeWidth |-> strokeWidth, opacity |-> opacity]

\* The d of a clean arrow over the offset points pts.
CleanArrowPath(pts, curved) ==
  LET n == Len(pts)
      at(i) == pts[Max2(1, Min2(n, i))]
      seg(i) == LET p0 == at(i - 1)
                    p1 == at(i)
                    p2 == at(i + 1)
                    p3 == at(i + 2)
                IN <<"C", Rat(6 * p1.x + p2.x - p0.x, 6), Rat(6 * p1.y + p2.y - p0.y, 6),
                          Rat(6 * p2.x - p3.x + p1.x, 6), Rat(6 * p2.y - p3.y + p1.y, 6),
                          p2.x, p2.y>>
  IN IF curved /\ n >= 2
     THEN IF n = 2
          THEN LET dx == pts[2].x - pts[1].x
                   dy == pts[2].y - pts[1].y
               IN <<"M", pts[1].x, pts[1].y, "C",
                    Rat(10 * pts[1].x + 3 * dx, 10), Rat(10 * pts[1].y + dy, 10),
                    Rat(10 * pts[1].x + 7 * dx, 10), Rat(10 * pts[2].y - dy, 10),
                    pts[2].x, pts[2].y>>
          ELSE <<"M", pts[1].x, pts[1].y>> \o [i \in 1..(n - 1) |-> seg(i)]
     ELSE <<"M">> \o [i \in 1..n |-> <<pts[i].x, pts[i].y>>]

\* Where a clean arrow's label goes: labelPosition is in percent, the result in
\* hundredths (before the y - 8 of the text element).
ArrowLabelPoint(shape, pts) ==
  LET n        == Len(pts)
      labelPos == OrElse(shape.labelPosition, 50)
      totalIdx == (n - 1) * labelPos
      idx      == totalIdx \div 100
      t        == totalIdx % 100
      p1       == pts[Min2(idx, n - 1) + 1]
      p2       == pts[Min2(idx + 1, n - 1) + 1]
      base     == IF n = 2
                  THEN Pt(pts[1].x + ((pts[2].x - pts[1].x) * labelPos) \div 100,
                          pts[1].y + ((pts[2].y - pts[1].y) * labelPos) \div 100)
                  ELSE IF n >= 3 /\ labelPos = 50
                  THEN pts[n \div 2 + 1]
                  ELSE Pt(p1.x + ((p2.x - p1.x) * t) \div 100,
                          p1.y + ((p2.y - p1.y) * t) \div 100)
  IN IF IsSome(shape.labelOffset)
     THEN Pt(base.x + H(shape.labelOffset[1].x), base.y + H(shape.labelOffset[1].y))
     ELSE base

\* The italic label of an arrow (clean and pro differ in size and fill).
ArrowLabel(shape, pts, fontSize, fill) ==
  LET at == ArrowLabelPoint(shape, pts)
  IN [tag |-> "text", x |-> at.x, y |-> at.y - H(8), anchor |-> "middle",
      fontFamily |-> "Virgil, Inter, sans-serif", fontSize |-> Num(fontSize),
      fill |-> fill, fontStyle |-> "italic", content |-> escapeXml(shape.label[1])]

\* The primitives a box-like shape is drawn with in the clean and pro styles, in the
\* order the style emits them; r is the corner radius (8 clean, 12 pro).  A path the
\* code prints from x, y, width and height alone is kept as that tuple.
BoxGeometry(shape, r, pro) ==
  LET x  == H(shape.x)
      y  == H(shape.y)
      w  == H(shape.width[1])
      h  == H(shape.height[1])
      cx == x + w \div 2
      cy == y + h \div 2
      prim(tag, geom, fillable) == [tag |-> tag, geom |-> geom, fillable |-> fillable]
  IN CASE shape.type = "rectangle" -> <<prim("rect", <<x, y, w, h, H(r)>>, TRUE)>>
       [] shape.type = "ellipse"   -> <<prim("ellipse", <<cx, cy, w \div 2, h \div 2>>, TRUE)>>
       [] shape.type = "diamond"   ->
            <<prim("polygon", <<cx, y, x + w, cy, cx, y + h, x, cy>>, TRUE)>>
       [] shape.type = "cylinder"  ->
            LET ellipseH == Pct(h, 12)
                top    == prim("ellipse", <<cx, y + ellipseH, w \div 2, ellipseH>>, TRUE)
                body   == prim("rect", <<x, y + ellipseH, w, h - ellipseH * 2, 0>>, TRUE)
                bottom == prim("ellipse", <<cx, y + h - ellipseH, w \div 2, ellipseH>>, TRUE)
            IN IF pro THEN <<body, top, bottom>> ELSE <<top, body, bottom>>
       [] shape.type = "hexagon"   ->
            LET inset == Pct(w, 25)
            IN <<prim("polygon", <<x + inset, y, x + w - inset, y, x + w, cy,
                                   x + w - inset, y + h, x + inset, y + h, x, cy>>, TRUE)>>
       [] shape.type = "cloud"     -> <<prim("path", <<"cloud", x, y, w, h>>, TRUE)>>
       [] shape.type = "document"  -> <<prim("path", <<"document", x, y, w, h, Pct(h, 8)>>, TRUE)>>
       [] shape.type = "person"    ->
            LET headR == Pct(Min2(w, h), 18)
                headY == y + headR + H(5)
            IN <<prim("circle", <<cx, headY, headR>>, FALSE),
                 prim("line", <<cx, headY + headR, cx, y + Pct(h, 60)>>, FALSE),
                 prim("line", <<x + Pct(w, 15), y + Pct(h, 35), x + Pct(w, 85), y + Pct(h, 35)>>, FALSE),
                 prim("line", <<cx, y + Pct(h, 60), x + Pct(w, 20), y + h>>, FALSE),
                 prim("line", <<cx, y + Pct(h, 60), x + Pct(w, 80), y + h>>, FALSE)>>
       [] shape.type = "callout"   ->
            LET px == IF IsSome(shape.pointerX) THEN H(shape.pointerX[1]) ELSE x + Pct(w, 20)
                py == IF IsSome(shape.pointerY) THEN H(shape.pointerY[1]) ELSE y + h + H(20)
            IN <<prim("path", <<"callout", x, y, w, h, H(r), px, py>>, TRUE)>>

\* Where a box-like shape's label is centred, and the part (in percent) of the width
\* and height that calcFontSize is given; the same in the three styles.
LabelBox(shape) ==
  LET x  == H(shape.x)
      y  == H(shape.y)
      w  == H(shape.width[1])
      h  == H(shape.height[1])
      at(cy, pw, ph) == [cx |-> x + w \div 2, cy |-> cy, pw |-> pw, ph |-> ph]
  IN CASE shape.type = "rectangle" -> at(y + h \div 2, 100, 100)
       [] shape.type = "ellipse"   -> at(y + h \div 2, 80, 80)
       [] shape.type = "diamond"   -> at(y + h \div 2, 60, 60)
       [] shape.type = "cylinder"  -> at(y + h \div 2, 80, 50)
       [] shape.type = "hexagon"   -> at(y + h \div 2, 50, 70)
       [] shape.type = "cloud"     -> at(y + h \div 2, 60, 50)
       [] shape.type = "document"  -> at(y + Pct(h, 40), 80, 60)
       [] shape.type = "callout"   -> at(y + h \div 2, 80, 70)

renderCleanShape(shape, stroke, fill, strokeWidth, opacity, darkMode) ==
  LET x == H(shape.x)
      y == H(shape.y)
  IN CASE shape.type \in BoxTypes ->
            LET prims == BoxGeometry(shape, 8, FALSE)
                els   == [i \in 1..Len(prims) |->
                            CleanEl(prims[i].tag, prims[i].geom,
                                    IF prims[i].fillable THEN fill
                                    ELSE IF prims[i].tag = "circle" THEN "none" ELSE "",
                                    stroke, strokeWidth, opacity)]
            IN IF shape.type = "person"
               THEN els \o (IF HasLabel(shape)
                            THEN <<[tag |-> "text", x |-> x + H(shape.width[1]) \div 2,
                                    y |-> y + H(shape.height[1]) + H(18),
                                    anchor |-> "middle", fontFamily |-> CleanFont,
                                    fontSize |-> Num(14), fill |-> stroke,
                                    content |-> escapeXml(shape.label[1])]>>
                            ELSE <<>>)
               ELSE LET lb == LabelBox(shape)
                    IN els \o BoxLabel(shape, lb.cx, lb.cy, lb.pw, lb.ph, stroke, TRUE)
       [] shape.type = "line" ->
            IF TooFewPoints(shape) THEN <<>>
            ELSE <<CleanEl("polyline", OffsetPoints(shape), "none", stroke, strokeWidth, opacity)>>
       [] shape.type = "arrow" ->
            IF TooFewPoints(shape) THEN <<>>
            ELSE LET pts  == OffsetPoints(shape)
                     last == pts[Len(pts)]
                     prev == pts[Len(pts) - 1]
                     angle == <<last.y - prev.y, last.x - prev.x>>
                     headStyle == IF Truthy(shape.arrowHead) THEN shape.arrowHead[1] ELSE "arrow"
                     headPath  == arrowHead(last.x, last.y, angle, 12, headStyle)
                 IN <<StrokedPath(CleanArrowPath(pts, shape.curved), stroke, strokeWidth,
                                  opacity, "none", shape.dashed),
                      [tag |-> "path", d |-> headPath, stroke |-> stroke,
                       fill |-> HeadFill(headStyle, stroke), strokeWidth |-> strokeWidth]>>
                    \o (IF HasLabel(shape) THEN <<ArrowLabel(shape, pts, 12, stroke)>> ELSE <<>>)
       [] shape.type = "text" ->
            <<[tag |-> "text", x |-> x, y |-> y, fontFamily |-> CleanFont,
               fontSize |-> Num(IF IsSome(shape.fontSize) /\ shape.fontSize[1] # 0
                                THEN shape.fontSize[1] ELSE 20),
               fill |-> stroke, opacity |-> opacity, content |-> escapeXml(shape.text[1])]>>
       [] OTHER -> <<>>

\* Reading .length of absent points, or escaping an absent text, is a TypeError.
MissingField(shape) ==
  \/ shape.type \in PathTypes /\ ~IsSome(shape.points)
  \/ shape.type = "text" /\ ~IsSome(shape.text)

\* shape.strokeWidth || dflt, in hundredths.
StrokeWidthOr(shape, dflt) ==
  IF IsSome(shape.strokeWidth) /\ shape.strokeWidth[1] # 0 THEN H(shape.strokeWidth[1]) ELSE dflt

\* Faulty variant of renderShape: the clean style is drawn with the rough builders.
renderShapeRoughOnly(shape, s, roughness, darkMode, cleanStyle) ==
  renderRoughShape(shape, s, roughness,
                   IF Truthy(shape.strokeColor) THEN shape.strokeColor[1] ELSE "#1e1e1e",
                   IF Truthy(shape.fillColor) THEN shape.fillColor[1] ELSE "none",
                   StrokeWidthOr(shape, 200), OrElse(shape.opacity, 100))

\* renderShape(shape, rand, roughness, darkMode, cleanStyle): opacity is in percent.
renderShape(shape, s, roughness, darkMode, cleanStyle) ==
  LET defaultStroke == IF darkMode THEN "#e0e0e0" ELSE "#1e1e1e"
      stroke == IF ~Truthy(shape.strokeColor) THEN defaultStroke
                ELSE IF ~darkMode THEN lightModeColor(shape.strokeColor[1])
                ELSE shape.strokeColor[1]
      fill   == IF Truthy(shape.fillColor) THEN shape.fillColor[1] ELSE "none"
      strokeWidth == StrokeWidthOr(shape, 200)
      opacity == OrElse(shape.opacity, 100)
  IN IF cleanStyle
     THEN IF MissingField(shape) THEN Threw(s)
          ELSE Rendered(renderCleanShape(shape, stroke, fill, strokeWidth, opacity, darkMode), s)
     ELSE renderRoughShape(shape, s, roughness, stroke, fill, strokeWidth, opacity)

(***************************************************************************)
(* Pro style.                                                              *)
(***************************************************************************)
ProEntry(key, accent, glow, gradTop) ==
  [key |-> key, accent |-> accent, glow |-> glow, gradTop |-> gradTop, gradBot |-> "#0a1628"]

\* PRO_COLORS in the order of its keys (Object.entries order).
PRO_COLORS ==
  << ProEntry("#00d4ff", "#00d4ff", "rgba(0, 212, 255, 0.3)", "#0d2a3a"),
     ProEntry("#dbeafe", "#00d4ff", "rgba(0, 212, 255, 0.3)", "#0d2a3a"),
     ProEntry("#bae6fd", "#00d4ff", "rgba(0, 212, 255, 0.3)", "#0d2a3a"),
     ProEntry("#67e8f9", "#00d4ff", "rgba(0, 212, 255, 0.3)", "#0d2a3a"),
     ProEntry("#22d3ee", "#00d4ff", "rgba(0, 212, 255, 0.3)", "#0d2a3a"),
     ProEntry("#00ff88", "#00ff88", "rgba(0, 255, 136, 0.3)", "#0d2a1e"),
     ProEntry("#dcfce7", "#00ff88", "rgba(0, 255, 136, 0.3)", "#0d2a1e"),
     ProEntry("#bbf7d0", "#00ff88", "rgba(0, 255, 136, 0.3)", "#0d2a1e"),
     ProEntry("#22c55e", "#00ff88", "rgba(0, 255, 136, 0.3)", "#0d2a1e"),
     ProEntry("#34d399", "#00ff88", "rgba(0, 255, 136, 0.3)", "#0d2a1e"),
     ProEntry("#ff9f43", "#ff9f43", "rgba(255, 159, 67, 0.3)", "#2a1d0d"),
     ProEntry("#fef3c7", "#ff9f43", "rgba(255, 159, 67, 0.3)", "#2a1d0d"),
     ProEntry("#fed7aa", "#ff9f43", "rgba(255, 159, 67, 0.3)", "#2a1d0d"),
     ProEntry("#fb923c", "#ff9f43", "rgba(255, 159, 67, 0.3)", "#2a1d0d"),
     ProEntry("#f59e0b", "#ff9f43", "rgba(255, 159, 67, 0.3)", "#2a1d0d"),
     ProEntry("#a855f7", "#a855f7", "rgba(168, 85, 247, 0.3)", "#1e0d2a"),
     ProEntry("#e9d5ff", "#a855f7", "rgba(168, 85, 247, 0.3)", "#1e0d2a"),
     ProEntry("#c084fc", "#a855f7", "rgba(168, 85, 247, 0.3)", "#1e0d2a"),
     ProEntry("#9333ea", "#a855f7", "rgba(168, 85, 247, 0.3)", "#1e0d2a"),
     ProEntry("#ff6b9d", "#ff6b9d", "rgba(255, 107, 157, 0.3)", "#2a0d1e"),
     ProEntry("#fce7f3", "#ff6b9d", "rgba(255, 107, 157, 0.3)", "#2a0d1e"),
     ProEntry("#f472b6", "#ff6b9d", "rgba(255, 107, 157, 0.3)", "#2a0d1e"),
     ProEntry("#ec4899", "#ff6b9d", "rgba(255, 107, 157, 0.3)", "#2a0d1e"),
     ProEntry("#60a5fa", "#60a5fa", "rgba(96, 165, 250, 0.3)", "#0d1e2a"),
     ProEntry("#93c5fd", "#60a5fa", "rgba(96, 165, 250, 0.3)", "#0d1e2a"),
     ProEntry("#3b82f6", "#60a5fa", "rgba(96, 165, 250, 0.3)", "#0d1e2a"),
     ProEntry("#fbbf24", "#fbbf24", "rgba(251, 191, 36, 0.3)", "#2a250d"),
     ProEntry("#fef08a", "#fbbf24", "rgba(251, 191, 36, 0.3)", "#2a250d"),
     ProEntry("#facc15", "#fbbf24", "rgba(251, 191, 36, 0.3)", "#2a250d"),
     ProEntry("#f87171", "#ff6b9d", "rgba(255, 107, 157, 0.3)", "#2a0d0d"),
     ProEntry("#fca5a5", "#ff6b9d", "rgba(255, 107, 157, 0.3)", "#2a0d0d"),
     ProEntry("#ef4444", "#ff6b9d", "rgba(255, 107, 157, 0.3)", "#2a0d0d") >>

PRO_DEFAULT == ProEntry("", "#00d4ff", "rgba(0, 212, 255, 0.3)", "#0d2a3a")

\* getProColor(fillColor): the palette entry of a fill colour, or the default.
getProColor(fillColor) ==
  IF ~Truthy(fillColor) \/ fillColor[1] = "none" THEN PRO_DEFAULT
  ELSE LET lower == ToLowerCase(fillColor[1])
           hits  == {i \in 1..Len(PRO_COLORS) : PRO_COLORS[i].key = lower}
       IN IF hits = {} THEN PRO_DEFAULT
          ELSE [PRO_COLORS[CHOOSE i \in hits : TRUE] EXCEPT !.key = ""]

\* colorId(hex): the hex colour without '#' and without any non-alphanumeric character.
colorId(hex) ==
  CASE hex = "#00d4ff" -> "00d4ff"
    [] hex = "#00ff88" -> "00ff88"
    [] hex = "#ff9f43" -> "ff9f43"
    [] hex = "#a855f7" -> "a855f7"
    [] hex = "#ff6b9d" -> "ff6b9d"
    [] hex = "#60a5fa" -> "60a5fa"
    [] hex = "#fbbf24" -> "fbbf24"

\* Faulty variant of SetAdd: a list that keeps duplicates.
SetAddAlways(seq, v) == Append(seq, v)

\* Set.add in insertion order: seq is the set's iteration order.
SetAdd(seq, v) == IF \E i \in 1..Len(seq) : seq[i] = v THEN seq ELSE Append(seq, v)

\* usedColors after the first n shapes have been visited.
RECURSIVE UsedColors(_, _)
UsedColors(shapes, n) ==
  IF n = 0 THEN <<>>
  ELSE SetAdd(UsedColors(shapes, n - 1), getProColor(shapes[n].fillColor).accent)

\* The gradient's top colour: that of the first palette entry with this accent.
GradTopOf(accent) ==
  LET hits == {i \in 1..Len(PRO_COLORS) : PRO_COLORS[i].accent = accent}
  IN IF hits = {} THEN "#0d1b2a"
     ELSE PRO_COLORS[CHOOSE i \in hits : \A j \in hits : i <= j].gradTop

\* A resource of the defs block; its id is <<family, suffix>> for "family-suffix".
Def(kind, family, suffix, colour) ==
  [kind |-> kind, id |-> <<family, suffix>>, colour |-> colour]

\* Faulty variant of generateProDefs: the resources of the default accent only.
generateProDefsDefaultOnly(shapes) ==
  LET usedColors == <<PRO_DEFAULT.accent>>
      each(kind, family, colourOf(_)) ==
        [i \in 1..Len(usedColors) |->
           Def(kind, family, colorId(usedColors[i]), colourOf(usedColors[i]))]
      same(accent) == accent
  IN <<Def("linearGradient", "pro-bgGrad", "", "#0f0f1e"),
       Def("pattern", "pro-grid", "", "#ffffff")>>
     \o each("filter", "pro-glow", same)
     \o <<Def("filter", "pro-shadow", "", "#000000")>>
     \o each("linearGradient", "pro-grad", GradTopOf)
     \o each("marker", "pro-arrow", same)
     \o <<Def("marker", "pro-arrow", "default", "#e2e8f0")>>

\* generateProDefs(shapes): the resources, in document order.
generateProDefs(shapes) ==
  LET usedColors == SetAdd(UsedColors(shapes, Len(shapes)), PRO_DEFAULT.accent)
      each(kind, family, colourOf(_)) ==
        [i \in 1..Len(usedColors) |->
           Def(kind, family, colorId(usedColors[i]), colourOf(usedColors[i]))]
      same(accent) == accent
  IN <<Def("linearGradient", "pro-bgGrad", "", "#0f0f1e"),
       Def("pattern", "pro-grid", "", "#ffffff")>>
     \o each("filter", "pro-glow", same)
     \o <<Def("filter", "pro-shadow", "", "#000000")>>
     \o each("linearGradient", "pro-grad", GradTopOf)
     \o each("marker", "pro-arrow", same)
     \o <<Def("marker", "pro-arrow", "default", "#e2e8f0")>>

ProFont == "-apple-system, system-ui, 'Segoe UI', sans-serif"

\* renderProText(cx, cy, text, fontSize, fontFamily)
renderProText(cx, cy, text, fontSize, fontFamily) ==
  LET lines == Split(text)
  IN [i \in 1..Len(lines) |->
        [tag |-> "text", x |-> cx, y |-> <<"line-y", cy, fontSize, Len(lines), i - 1>>,
         anchor |-> "middle", baseline |-> "middle", fontFamily |-> fontFamily,
         fontSize |-> fontSize, fill |-> "#e2e8f0", content |-> escapeXml(lines[i])]]

\* renderProShape(shape, darkMode): a box-like shape is one group holding its
\* primitives and its label.
renderProShape(shape, darkMode) ==
  LET pc       == getProColor(shape.fillColor)
      accent   == pc.accent
      accentId == colorId(accent)
      strokeWidth == StrokeWidthOr(shape, 120)
      opacity  == OrElse(shape.opacity, 100)
      x == H(shape.x)
      y == H(shape.y)
  IN CASE shape.type \in BoxTypes ->
            LET prims == BoxGeometry(shape, 12, TRUE)
                els   == [i \in 1..Len(prims) |->
                            [tag |-> prims[i].tag, geom |-> prims[i].geom,
                             fill |-> IF prims[i].fillable THEN <<"pro-grad", accentId>>
                                      ELSE <<>>,
                             stroke |-> accent, strokeWidth |-> strokeWidth]]
                label == IF ~HasLabel(shape) THEN <<>>
                         ELSE IF shape.type = "person"
                         THEN <<[tag |-> "text", x |-> x + H(shape.width[1]) \div 2,
                                 y |-> y + H(shape.height[1]) + H(18),
                                 anchor |-> "middle", fontFamily |-> ProFont,
                                 fontSize |-> Num(12), fill |-> "#e2e8f0",
                                 content |-> escapeXml(shape.label[1])]>>
                         ELSE LET lb == LabelBox(shape)
                              IN renderProText(lb.cx, lb.cy, shape.label[1],
                                   calcFontSize(shape.label[1], Rat(shape.width[1] * lb.pw, 100),
                                                Rat(shape.height[1] * lb.ph, 100),
                                                Num(DefaultBaseSize)),
                                   ProFont)
            IN <<[tag |-> "g", filter |-> <<"pro-glow", accentId>>, opacity |-> opacity,
                  children |-> els \o label]>>
       [] shape.type = "line" ->
            IF TooFewPoints(shape) THEN <<>>
            ELSE <<[tag |-> "polyline", geom |-> OffsetPoints(shape), fill |-> "none",
                    stroke |-> accent, strokeWidth |-> strokeWidth, opacity |-> opacity]>>
       [] shape.type = "arrow" ->
            IF TooFewPoints(shape) THEN <<>>
            ELSE LET pts == OffsetPoints(shape)
                 IN <<[tag |-> "path", d |-> CleanArrowPath(pts, shape.curved), fill |-> "none",
                       stroke |-> accent, strokeWidth |-> strokeWidth,
                       marker |-> <<"pro-arrow", accentId>>,
                       dash |-> IF shape.dashed THEN "6 4" ELSE "", opacity |-> opacity]>>
                    \o (IF HasLabel(shape)
                        THEN <<[ArrowLabel(shape, pts, 10, accent) EXCEPT !.fontFamily = ProFont]>>
                        ELSE <<>>)
       [] shape.type = "text" ->
            <<[tag |-> "text", x |-> x, y |-> y, fontFamily |-> ProFont,
               fontSize |-> Num(IF IsSome(shape.fontSize) /\ shape.fontSize[1] # 0
                                THEN shape.fontSize[1] ELSE 20),
               fill |-> "#e2e8f0", opacity |-> opacity, content |-> escapeXml(shape.text[1])]>>
       [] OTHER -> <<>>

\* generateCornerAccents(vx, vy, vw, vh): four corner strokes (vw and vh are finite).
generateCornerAccents(vx, vy, vw, vh) ==
  LET m   == 15
      len == 30
      x1  == NumAdd(vx, Num(m))
      y1  == NumAdd(vy, Num(m))
      x2  == NumAdd(NumAdd(vx, vw), Num(-m))
      y2  == NumAdd(NumAdd(vy, vh), Num(-m))
      plus(a, k) == NumAdd(a, Num(k))
      corner(ax, ay, bx, by, ex, ey) ==
        [tag |-> "path", d |-> <<"M", ax, ay, "L", bx, by, "L", ex, ey>>,
         stroke |-> "#00ff88", fill |-> "none"]
  IN <<corner(x1, plus(y1, len), x1, y1, plus(x1, len), y1),
       corner(plus(x2, -len), y1, x2, y1, x2, plus(y1, len)),
       corner(x1, plus(y2, -len), x1, y2, plus(x1, len), y2),
       corner(plus(x2, -len), y2, x2, y2, x2, plus(y2, -len))>>

(***************************************************************************)
(* calculateBounds and renderToSvg.                                        *)
(***************************************************************************)
\* The loop body of calculateBounds for one shape, on the running bounds acc.
RECURSIVE BoundPoints(_, _, _)
BoundPoints(acc, points, i) ==
  IF i > Len(points) THEN acc
  ELSE BoundPoints([minX |-> NumMin(acc.minX, Rat(points[i].x, 100)),
                    minY |-> NumMin(acc.minY, Rat(points[i].y, 100)),
                    maxX |-> NumMax(acc.maxX, Rat(points[i].x, 100)),
                    maxY |-> NumMax(acc.maxY, Rat(points[i].y, 100))], points, i + 1)

\* Faulty variant of BoundShape: a line's or arrow's points are offset by its x and y.
BoundShapeOffset(acc, shape) ==
  IF shape.type \in PathTypes /\ IsSome(shape.points)
  THEN BoundPoints(acc, OffsetPoints(shape), 1)
  ELSE [minX |-> NumMin(acc.minX, Num(shape.x)), minY |-> NumMin(acc.minY, Num(shape.y)),
        maxX |-> NumMax(acc.maxX, Num(shape.x + OrElse(shape.width, 100))),
        maxY |-> NumMax(acc.maxY, Num(shape.y + OrElse(shape.height, 50)))]

BoundShape(acc, shape) ==
  LET x == shape.x
      y == shape.y
      w == OrElse(shape.width, 100)
      h == OrElse(shape.height, 50)
  IN IF shape.type \in PathTypes /\ IsSome(shape.points)
     THEN BoundPoints(acc, shape.points[1], 1)
     ELSE [minX |-> NumMin(acc.minX, Num(x)), minY |-> NumMin(acc.minY, Num(y)),
           maxX |-> NumMax(acc.maxX, Num(x + w)), maxY |-> NumMax(acc.maxY, Num(y + h))]

RECURSIVE BoundShapes(_, _)
BoundShapes(shapes, n) ==
  IF n = 0
  THEN [minX |-> Infinity, minY |-> Infinity, maxX |-> NegInfinity, maxY |-> NegInfinity]
  ELSE BoundShape(BoundShapes(shapes, n - 1), shapes[n])

\* Faulty variant of calculateBounds: the padding is applied to the default box too.
calculateBoundsPadded(shapes, padding) ==
  LET b == IF Len(shapes) = 0
           THEN [minX |-> Num(0), minY |-> Num(0), maxX |-> Num(1200), maxY |-> Num(800)]
           ELSE BoundShapes(shapes, Len(shapes))
  IN [minX |-> NumSub(b.minX, Num(padding)), minY |-> NumSub(b.minY, Num(padding)),
      maxX |-> NumAdd(b.maxX, Num(padding)), maxY |-> NumAdd(b.maxY, Num(padding))]

\* calculateBounds(shapes, padding)
calculateBounds(shapes, padding) ==
  IF Len(shapes) = 0
  THEN [minX |-> Num(0), minY |-> Num(0), maxX |-> Num(1200), maxY |-> Num(800)]
  ELSE LET b == BoundShapes(shapes, Len(shapes))
       IN [minX |-> NumSub(b.minX, Num(padding)), minY |-> NumSub(b.minY, Num(padding)),
           maxX |-> NumAdd(b.maxX, Num(padding)), maxY |-> NumAdd(b.maxY, Num(padding))]

\* The default of calculateBounds' padding parameter.
DefaultPadding == 200

\* RenderOptions with every field absent.
NoOptions ==
  [width |-> None, height |-> None, roughness |-> None, seed |-> None,
   darkMode |-> None, style |-> None]

\* The loop of renderToSvg over state.shapes for the rough and clean styles: the
\* markup of each shape in order, the generator's final state, and whether a shape
\* threw (the exception leaves the loop).
RECURSIVE RenderShapes(_, _, _, _, _, _)
RenderShapes(shapes, n, s, roughness, darkMode, cleanStyle) ==
  IF n = 0 THEN [parts |-> <<>>, s |-> s, threw |-> FALSE]
  ELSE Val({IF before.threw THEN before
            ELSE Val({[parts |-> Append(before.parts, r.svg), s |-> r.s, threw |-> r.threw] :
                      r \in {renderShape(shapes[n], before.s, roughness, darkMode,
                                         cleanStyle)}}) :
            before \in {RenderShapes(shapes, n - 1, s, roughness, darkMode, cleanStyle)}})

\* The document renderToSvg returns, or Raised when it throws.
Raised == [threw |-> TRUE]

\* Faulty variant of PointsAfterMap: the offsets are written into the shape's own points.
PointsAfterMapInPlace(shape) == Some(OffsetPoints(shape))

\* shape.points once `shape.points.map(p => ...)` has run: map builds a new array and
\* leaves the array it reads as it was.
PointsAfterMap(shape) == shape.points

\* state.shapes once renderToSvg has returned or thrown.  The loop reaches a shape when
\* no shape before it threw; the arrow case of every style, and the line case of the
\* clean and pro styles, map the points of a shape that passed the guard; no other
\* statement of the renderer reads a shape for more than its fields' values.
ShapesAfterRender(shapes, options) ==
  LET rough == options.style # Some("clean") /\ options.style # Some("pro")
      reached(i) == \A j \in 1..(i - 1) : ~MissingField(shapes[j])
      maps(shape) == /\ shape.type = "arrow" \/ (shape.type = "line" /\ ~rough)
                     /\ IsSome(shape.points) /\ ~TooFewPoints(shape)
  IN [i \in 1..Len(shapes) |->
        IF reached(i) /\ maps(shapes[i])
        THEN [shapes[i] EXCEPT !.points = PointsAfterMap(shapes[i])]
        ELSE shapes[i]]

\* renderToSvg(state, options), called when Date.now() is now (a generator seed).
renderToSvg(state, options, now) ==
  LET width     == IF IsSome(options.width) /\ options.width[1] # 0 THEN options.width[1] ELSE 800
      height    == IF IsSome(options.height) /\ options.height[1] # 0 THEN options.height[1] ELSE 600
      roughness == OrElse(options.roughness, 100)
      seed      == IF IsSome(options.seed) /\ options.seed[1] # 0
                   THEN StateOf(options.seed[1]) ELSE now
      darkMode  == OrElse(options.darkMode, FALSE)
      isPro     == options.style = Some("pro")
      bgColor   == IF isPro \/ darkMode THEN "#1a1a2e"
                   ELSE IF Truthy(state.backgroundColor) THEN state.backgroundColor[1]
                   ELSE "#ffffff"
      bounds    == calculateBounds(state.shapes, 500)
      contentW  == NumSub(bounds.maxX, bounds.minX)
      contentH  == NumSub(bounds.maxY, bounds.minY)
      vw        == NumMax(contentW, Num(width))
      vh        == NumMax(contentH, Num(height))
      vx        == bounds.minX
      vy        == bounds.minY
      cleanStyle == options.style = Some("clean")
      background(fill) ==
        [tag |-> "rect", x |-> NumSub(vx, Num(10000)), y |-> NumSub(vy, Num(10000)),
         width |-> NumAdd(vw, Num(20000)), height |-> NumAdd(vh, Num(20000)), fill |-> fill]
      doc(defs, backgrounds, parts, corners) ==
        [threw |-> FALSE, xmlDeclaration |-> TRUE, width |-> width, height |-> height, viewBox |-> <<vx, vy, vw, vh>>,
         defs |-> defs, backgrounds |-> backgrounds, parts |-> parts, corners |-> corners]
  IN IF isPro
     THEN IF \E i \in 1..Len(state.shapes) : MissingField(state.shapes[i]) THEN Raised
          ELSE doc(generateProDefs(state.shapes),
                   <<background("url(#pro-bgGrad)"), background("url(#pro-grid)")>>,
                   [i \in 1..Len(state.shapes) |-> renderProShape(state.shapes[i], TRUE)],
                   generateCornerAccents(vx, vy, vw, vh))
     ELSE Val({IF r.threw THEN Raised
               ELSE doc(<<>>, <<background(bgColor)>>, r.parts, <<>>) :
               r \in {RenderShapes(state.shapes, Len(state.shapes), seed, roughness,
                                   darkMode, cleanStyle)}})

\* renderToSvgHtml(state, options): the document without its XML declaration.
renderToSvgHtml(state, options, now) ==
  Val({IF svg.threw THEN svg ELSE [svg EXCEPT !.xmlDeclaration = FALSE] :
       svg \in {renderToSvg(state, options, now)}})

(***************************************************************************)
(* The viewer's connector resolver (viewer.ts).                            *)
(***************************************************************************)
\* A binding is a shape id (str) or an object {shapeId, anchor, offsetX, offsetY}.
StringBinding(id) ==
  [str |-> TRUE, shapeId |-> id, anchor |-> None, offsetX |-> None, offsetY |-> None]
ObjectBinding(id, anchor) ==
  [str |-> FALSE, shapeId |-> id, anchor |-> Some(anchor), offsetX |-> None, offsetY |-> None]

\* A binding object with its optional pixel offset.
OffsetBinding(id, anchor, offsetX, offsetY) ==
  [ObjectBinding(id, anchor) EXCEPT !.offsetX = Some(offsetX), !.offsetY = Some(offsetY)]

Anchors == {"top", "bottom", "left", "right", "center", "auto"}

\* getAnchorPoint(shape, anchor): a point in hundredths.
getAnchorPoint(shape, anchor) ==
  LET w  == IF IsSome(shape.width) /\ shape.width[1] # 0 THEN shape.width[1] ELSE 100
      h  == IF IsSome(shape.height) /\ shape.height[1] # 0 THEN shape.height[1] ELSE 50
      cx == H(shape.x) + H(w) \div 2
      cy == H(shape.y) + H(h) \div 2
  IN CASE anchor = "top"    -> Pt(cx, H(shape.y))
       [] anchor = "bottom" -> Pt(cx, H(shape.y) + H(h))
       [] anchor = "left"   -> Pt(H(shape.x), cy)
       [] anchor = "right"  -> Pt(H(shape.x) + H(w), cy)
       [] OTHER             -> Pt(cx, cy)

\* Faulty variant of checkBinding: the binding's shape id is not compared with the
\* moved shape's.
checkBindingAny(shape, binding, pointIndex, movedShape) ==
  LET skip == [shape |-> shape, changed |-> FALSE]
  IN IF ~IsSome(binding) \/ (binding[1].str /\ binding[1].shapeId = "") THEN skip
     ELSE LET anchor == IF ~binding[1].str /\ Truthy(binding[1].anchor)
                        THEN binding[1].anchor[1] ELSE "auto"
              pt == getAnchorPoint(movedShape, anchor)
          IN IF IsSome(shape.points) /\ pointIndex >= 0 /\ pointIndex < Len(shape.points[1])
             THEN [shape |-> [shape EXCEPT !.points = Some([shape.points[1] EXCEPT
                                                             ![pointIndex + 1] = pt])],
                   changed |-> TRUE]
             ELSE skip

\* checkBinding(binding, pointIndex) on the arrow shape; pointIndex counts from 0 and
\* is -1 when there is no such index.  The result is the arrow after the call and
\* whether the call set changed.
checkBinding(shape, binding, pointIndex, movedShape) ==
  LET skip == [shape |-> shape, changed |-> FALSE]
  IN IF ~IsSome(binding) \/ (binding[1].str /\ binding[1].shapeId = "") THEN skip
     ELSE IF binding[1].shapeId # movedShape.id THEN skip
     ELSE LET anchor == IF ~binding[1].str /\ Truthy(binding[1].anchor)
                        THEN binding[1].anchor[1] ELSE "auto"
              pt == getAnchorPoint(movedShape, anchor)
          IN IF IsSome(shape.points) /\ pointIndex >= 0 /\ pointIndex < Len(shape.points[1])
             THEN [shape |-> [shape EXCEPT !.points = Some([shape.points[1] EXCEPT
                                                             ![pointIndex + 1] = pt])],
                   changed |-> TRUE]
             ELSE skip

\* Faulty variant of UpdateArrow: the end binding moves the point before the last one.
UpdateArrowBeforeLast(shape, movedShape) ==
  IF shape.type # "arrow" THEN [shape |-> shape, changed |-> FALSE]
  ELSE LET a == checkBinding(shape, shape.startBinding, 0, movedShape)
           last == IF IsSome(a.shape.points) THEN Len(a.shape.points[1]) - 2 ELSE -1
           b == checkBinding(a.shape, shape.endBinding, last, movedShape)
       IN [shape |-> b.shape, changed |-> a.changed \/ b.changed]

\* The loop body of updateBoundArrows for one shape of the canvas.
UpdateArrow(shape, movedShape) ==
  IF shape.type # "arrow" THEN [shape |-> shape, changed |-> FALSE]
  ELSE LET a == checkBinding(shape, shape.startBinding, 0, movedShape)
           last == IF IsSome(a.shape.points) THEN Len(a.shape.points[1]) - 1 ELSE -1
           b == checkBinding(a.shape, shape.endBinding, last, movedShape)
       IN [shape |-> b.shape, changed |-> a.changed \/ b.changed]

\* updateBoundArrows(movedShape) on the viewer's canvasState (absent before the first
\* load): the canvas's shapes after the call and the arrows it returns, in order.
updateBoundArrows(canvasState, movedShape) ==
  IF ~IsSome(canvasState) THEN [shapes |-> <<>>, updated |-> <<>>]
  ELSE LET shapes == canvasState[1].shapes
           each   == [i \in 1..Len(shapes) |-> UpdateArrow(shapes[i], movedShape)]
           hit    == SelectSeq(each, LAMBDA e : e.changed)
       IN [shapes |-> [i \in 1..Len(each) |-> each[i].shape],
           updated |-> [i \in 1..Len(hit) |-> hit[i].shape]]

\* findShapeAt for the canvas point (cx, cy) that screenToCanvas yields: the index in
\* canvasState.shapes of the topmost box-like shape under it, 0 when there is none.
HitPad == 10
findShapeAt(canvas, cx, cy) ==
  IF ~IsSome(canvas) THEN 0
  ELSE LET shapes == canvas[1].shapes
           Hit(s) == /\ s.type \notin {"text", "line", "arrow"}
                     /\ LET w == IF IsSome(s.width) /\ s.width[1] # 0 THEN s.width[1] ELSE 100
                            h == IF IsSome(s.height) /\ s.height[1] # 0 THEN s.height[1] ELSE 50
                        IN /\ cx >= s.x - HitPad /\ cx <= s.x + w + HitPad
                           /\ cy >= s.y - HitPad /\ cy <= s.y + h + HitPad
           hits == {i \in 1..Len(shapes) : Hit(shapes[i])}
       IN IF hits = {} THEN 0 ELSE CHOOSE i \in hits : \A j \in hits : j <= i

(***************************************************************************)
(* The canvas store (canvas-do.ts) behind the draw route (index.ts).  A    *)
(* canvas is its shape list and background colour; the viewport and the    *)
(* time stamps are left out.                                               *)
(***************************************************************************)
\* The canvas loadCanvas creates when the storage holds none.
EmptyCanvas == [shapes |-> <<>>, backgroundColor |-> Some("#ffffff")]

\* A draw command: shapes and shapeIds are optional.
Command(action, shapes, shapeIds) ==
  [action |-> action, shapes |-> shapes, shapeIds |-> shapeIds]

\* The ids the draw route's template `shape_${Date.now()}_${random}` can yield.
GeneratedIds == {"shape_1_k3x9qa", "shape_1_p07zrm"}

\* The draw route's loop: a shape that has no id (the empty string here) is given
\* a generated one, gen[i] for the i-th shape.
GenerateIds(cmd, gen) ==
  IF ~IsSome(cmd.shapes) THEN cmd
  ELSE [cmd EXCEPT !.shapes = Some([i \in 1..Len(cmd.shapes[1]) |->
                                     IF cmd.shapes[1][i].id = ""
                                     THEN [cmd.shapes[1][i] EXCEPT !.id = gen[i]]
                                     ELSE cmd.shapes[1][i]])]

\* canvas.shapes.findIndex(s => s.id === id), counting from 1; 0 when there is none.
findIndex(shapes, id) ==
  LET hits == {i \in 1..Len(shapes) : shapes[i].id = id}
  IN IF hits = {} THEN 0 ELSE CHOOSE i \in hits : \A j \in hits : i <= j

\* The loop of the update case from the k-th supplied shape on.
RECURSIVE UpdateShapes(_, _, _)
UpdateShapes(shapes, updated, k) ==
  IF k > Len(updated) THEN shapes
  ELSE Val({UpdateShapes(IF idx > 0 THEN [shapes EXCEPT ![idx] = updated[k]] ELSE shapes,
                         updated, k + 1) :
            idx \in {findIndex(shapes, updated[k].id)}})

\* The switch of the POST handler on cmd.action: the shape list after it.
ApplyCommand(shapes, cmd) ==
  CASE cmd.action = "add" /\ IsSome(cmd.shapes)      -> shapes \o cmd.shapes[1]
    [] cmd.action = "update" /\ IsSome(cmd.shapes)   -> UpdateShapes(shapes, cmd.shapes[1], 1)
    [] cmd.action = "delete" /\ IsSome(cmd.shapeIds) ->
         SelectSeq(shapes, LAMBDA sh : \A j \in 1..Len(cmd.shapeIds[1]) :
                                         cmd.shapeIds[1][j] # sh.id)
    [] cmd.action = "clear"                          -> <<>>
    [] OTHER                                         -> shapes

\* The sessions that may hold a socket of the canvas; the viewer's is Viewer.
Sessions == {"v", "w", "u"}
Viewer == "v"

\* A socket: accepted and not closed, and the last message sent on it.
ClosedSocket == [open |-> FALSE, last |-> None]

\* Faulty variant of Send: nothing is sent.
SendNothing(socket, message) == socket

\* ws.send(json) on one socket.
Send(socket, message) == [socket EXCEPT !.last = Some(message)]

\* broadcast(message): the sockets after it (getWebSockets() yields the open ones).
broadcast(socks, message) ==
  [s \in Sessions |-> IF socks[s].open THEN Send(socks[s], message) ELSE socks[s]]

\* The messages {type: 'state', canvas} and {type: 'update', cmd, canvas}; the command
\* an update message repeats is left out (no client reads it).
StateMessage(canvas) == [type |-> "state", canvas |-> canvas]
UpdateMessage(cmd, canvas) == [type |-> "update", canvas |-> canvas]

(***************************************************************************)
(* State.  The renderer is a pure function of a canvas state, the options  *)
(* and the clock; the viewer keeps its canvas, its selection and its drag  *)
(* in script variables.                                                    *)
(***************************************************************************)
VARIABLES
  state,          \* the CanvasState handed to renderToSvg
  options,        \* the RenderOptions handed to renderToSvg
  clock,          \* milliseconds elapsed since ClockStart: Date.now() is ClockStart + clock
  out,            \* the last call of the renderer: when, which entry point, what it returned
  args,           \* the arguments of a call of calcFontSize or calculateBounds
  result,         \* what that call returned
  canvasState,    \* viewer: the canvas last received
  selectedShape,  \* viewer: the selected shape object
  mode,           \* viewer: 'select' or 'pan'
  isDragging,     \* viewer
  isPanning,      \* viewer
  draggedArrows,  \* viewer: what updateBoundArrows last returned
  posted,         \* viewer: the body of the last POST to /draw
  mouseUps,       \* viewer: the mouseup handlers suspended at their fetch
  zoom,           \* viewer: the zoom factor
  contentBounds,  \* viewer: the bounds read from the last document's viewBox
  initialLoad,    \* viewer: no document of a canvas with shapes was loaded yet
  doCanvas,       \* canvas store: this.canvas of the canvas's durable object
  initialCanvas,  \* canvas store: the snapshot that reset restores
  sockets,        \* canvas store: each session's socket
  inbox,          \* the messages sent on the viewer's socket that it has not received yet
  requests,       \* the viewer's POST bodies on their way to the canvas store
  responses       \* the answers to them on their way back

vars == <<state, options, clock, out, args, result, canvasState, selectedShape, mode,
          isDragging, isPanning, draggedArrows, posted, mouseUps, zoom, contentBounds,
          initialLoad, doCanvas, initialCanvas, sockets, inbox, requests, responses>>

renderVars == <<state, options, clock, out>>
callVars   == <<args, result>>
viewerVars == <<canvasState, selectedShape, mode, isDragging, isPanning, draggedArrows, posted,
                mouseUps>>
viewVars   == <<zoom, contentBounds, initialLoad>>
storeVars  == <<doCanvas, initialCanvas, sockets, inbox, requests, responses>>

\* The variables of the components a specification leaves alone.
IdleRender == state = [shapes |-> <<>>, backgroundColor |-> None] /\ options = NoOptions
              /\ clock = 0 /\ out = None
IdleCall   == args = None /\ result = None
IdleViewer == canvasState = None /\ selectedShape = None /\ mode = "select"
              /\ isDragging = FALSE /\ isPanning = FALSE /\ draggedArrows = <<>>
              /\ posted = None /\ mouseUps = 0

IdleView   == zoom = Num(1) /\ initialLoad = TRUE
              /\ contentBounds = [minX |-> Num(0), minY |-> Num(0),
                                  maxX |-> Num(1200), maxY |-> Num(800)]
IdleStore  == doCanvas = EmptyCanvas /\ initialCanvas = None
              /\ sockets = [s \in Sessions |-> ClosedSocket]
              /\ inbox = <<>> /\ requests = <<>> /\ responses = 0

(***************************************************************************)
(* The renderer under the canvases and options below.                      *)
(***************************************************************************)
MaxShapes == 2     \* longest canvas built over CoreShapes
MaxTicks  == 1     \* how far the clock advances

\* Date.now() at clock 0: 1762000000000 = 820 * 2^31 + 1063408640.
ClockStart == <<820, 1063408640>>
Now(t) == <<ClockStart[1], ClockStart[2] + t>>

Labels == {None, Some(<<>>), Some(<<"A", "&", "\n", "B", "c">>)}

\* Every box-like type: without a label, with an empty one, with a label of two
\* lines, and filled.
BoxShapes ==
  {[Box("s1", t, 10, 20, 120, 60) EXCEPT !.label = l] : t \in BoxTypes, l \in Labels}
  \cup
  {[Box("s1", t, 10, 20, 120, 60) EXCEPT !.fillColor = Some("#22c55e")] : t \in BoxTypes}
  \cup
  {[Box("s1", "rectangle", 10, 20, 120, 60) EXCEPT !.fillColor = Some(c)] :
     c \in {"#ef4444", "#f472b6", "#123456", "none"}}

PointLists ==
  {<<>>, <<P(0, 0)>>, <<P(0, 0), P(40, 30)>>, <<P(0, 0), P(40, 30), P(80, 0)>>}

\* Lines and arrows by number of points, with the arrows' variants.
PathShapes ==
  {[BaseShape("s1", t, 5, 5) EXCEPT !.points = Some(pts)] :
     t \in PathTypes, pts \in PointLists}
  \cup
  {[BaseShape("s1", "arrow", 5, 5) EXCEPT
      !.points = Some(pts), !.curved = c, !.dashed = c, !.label = Some(<<"g", "o">>),
      !.arrowHead = h, !.arrowTail = h, !.fillColor = Some("#F87171")] :
     pts \in PointLists, c \in BOOLEAN, h \in {Some("triangle"), Some("none")}}

\* Texts, and the shapes whose required field is missing.
OtherShapes ==
  {[BaseShape("s1", "text", 5, 5) EXCEPT !.text = Some(<<"<", "b", ">">>)],
   [BaseShape("s1", "text", 5, 5) EXCEPT
      !.text = Some(<<"t">>), !.fontSize = Some(0), !.strokeColor = Some("#FFFFFF")],
   BaseShape("s1", "text", 5, 5),
   BaseShape("s1", "line", 5, 5),
   BaseShape("s1", "image", 5, 5)}

CoreShapes ==
  {[Box("a", "rectangle", 0, 0, 100, 50) EXCEPT
      !.label = Some(<<"O", "K">>), !.fillColor = Some("#22c55e")],
   [Box("b", "diamond", 200, 200, 50, 50) EXCEPT !.fillColor = Some("#34d399")],
   [Box("c", "person", 0, 100, 40, 80) EXCEPT !.fillColor = Some("#ec4899")],
   [BaseShape("d", "arrow", 50, 25) EXCEPT !.points = Some(<<P(0, 0)>>)]}

\* The shape lists rendered: one shape of any kind, up to MaxShapes core shapes, or a
\* box with an arrow of another colour.
ShapeLists ==
  {<<>>} \cup {<<sh>> : sh \in BoxShapes \cup PathShapes \cup OtherShapes}
  \cup UNION {[1..n -> CoreShapes] : n \in 2..MaxShapes}
  \cup {<<[Box("a", "rectangle", 0, 0, 100, 50) EXCEPT !.fillColor = Some("#22c55e")],
          [BaseShape("d", "arrow", 50, 25) EXCEPT
             !.points = Some(<<P(0, 0), P(40, 30)>>), !.fillColor = Some("#ec4899")]>>}

Seeds == {None, Some(0), Some(42)}

OptionSets ==
  {[NoOptions EXCEPT !.style = st, !.seed = sd] :
     st \in {None, Some("clean"), Some("pro")}, sd \in Seeds}
  \cup
  {[NoOptions EXCEPT !.seed = Some(42), !.roughness = Some(0)],
   [NoOptions EXCEPT !.seed = Some(7), !.darkMode = Some(TRUE), !.style = Some("rough"),
                     !.width = Some(0), !.height = Some(2000)],
   [NoOptions EXCEPT !.style = Some("clean"), !.darkMode = Some(TRUE)]}

InitRender ==
  /\ state \in {[shapes |-> l, backgroundColor |-> None] : l \in ShapeLists}
  /\ options \in OptionSets
  /\ clock = 0
  /\ out = None
  /\ IdleCall /\ IdleViewer /\ IdleView /\ IdleStore

\* A request for the SVG document: GET /canvas/:id/svg.
Render ==
  /\ out' = Some([now |-> clock, html |-> FALSE,
                  svg |-> renderToSvg(state, options, Now(clock))])
  /\ state' = [state EXCEPT !.shapes = ShapesAfterRender(state.shapes, options)]
  /\ UNCHANGED <<options, clock, callVars, viewerVars, viewVars, storeVars>>

\* A request for the embeddable document.
RenderHtml ==
  /\ out' = Some([now |-> clock, html |-> TRUE,
                  svg |-> renderToSvgHtml(state, options, Now(clock))])
  /\ state' = [state EXCEPT !.shapes = ShapesAfterRender(state.shapes, options)]
  /\ UNCHANGED <<options, clock, callVars, viewerVars, viewVars, storeVars>>

\* Time passes.
Tick ==
  /\ clock < MaxTicks
  /\ clock' = clock + 1
  /\ UNCHANGED <<state, options, out, callVars, viewerVars, viewVars, storeVars>>

NextRender == Render \/ RenderHtml \/ Tick

SpecRender == InitRender /\ [][NextRender]_vars

\* What the entry point of the last call returns for the options o at the time t.
Again(o, t) ==
  IF out[1].html THEN renderToSvgHtml(state, o, Now(t)) ELSE renderToSvg(state, o, Now(t))

IsRough(o) == o.style # Some("clean") /\ o.style # Some("pro")

\* C1: with style rough and an integer seed in the options, a second call of the
\* renderer on the same shapes, roughness and seed returns exactly what the
\* first call returned, whatever the time of the two calls.
C1_RoughDeterminism ==
  (out # None /\ IsRough(options) /\ IsSome(options.seed))
    => Again(options, clock) = out[1].svg

\* C1 keeps for a seed other than 0: the two calls agree although the clock moved.
C1_NonZeroSeedAgrees ==
  (out # None /\ IsRough(options) /\ IsSome(options.seed) /\ options.seed[1] # 0)
    => Again(options, clock) = out[1].svg

\* C25: with roughness 0 the rough style's document is the same for every seed: no
\* draw of the generator displaces a coordinate, for any of the shape types.
C25_RoughnessZeroSmooth ==
  (out # None /\ IsRough(options) /\ options.roughness = Some(0))
    => \A sd \in {Some(1), Some(7), Some(42)} :
         Again([options EXCEPT !.seed = sd], clock) = out[1].svg

\* What holds: the same for canvases without a cloud.
C25_RoughnessZeroSmoothButClouds ==
  (out # None /\ IsRough(options) /\ options.roughness = Some(0)
   /\ \A i \in 1..Len(state.shapes) : state.shapes[i].type # "cloud")
    => \A sd \in {Some(1), Some(7), Some(42)} :
         Again([options EXCEPT !.seed = sd], clock) = out[1].svg

\* C2: with style clean, and with style pro, the renderer returns the same document
\* for every seed (and at every time), all other options being equal.
C2_StyleIndependence ==
  (out # None /\ ~IsRough(options))
    => \A sd \in Seeds \cup {Some(1)} :
         Again([options EXCEPT !.seed = sd], clock) = out[1].svg

\* A pro document of two shapes or more was returned for seed 42, and time has passed.
C2_Witness ==
  /\ out # None /\ options.style = Some("pro") /\ options.seed = Some(42)
  /\ Len(state.shapes) >= 2 /\ ~out[1].svg.threw /\ clock > out[1].now

\* A line or arrow that has a point list of fewer than two points.
ShortPath(shape) ==
  shape.type \in PathTypes /\ IsSome(shape.points) /\ Len(shape.points[1]) < 2

\* C3: in every style, a line or arrow with a point list of 0 or 1 points adds no
\* markup to the document, and rendering it raises nothing (unless another shape does).
C3_PointCountGuard ==
  (out # None /\ \A i \in 1..Len(state.shapes) :
                   ShortPath(state.shapes[i]) \/ ~MissingField(state.shapes[i]))
    => /\ ~out[1].svg.threw
       /\ \A i \in 1..Len(state.shapes) :
            ShortPath(state.shapes[i]) => out[1].svg.parts[i] = <<>>

\* An arrow of one point was rendered after a shape that does produce markup.
C3_Witness ==
  /\ out # None /\ ~out[1].svg.threw /\ Len(state.shapes) >= 2
  /\ ShortPath(state.shapes[2]) /\ Len(state.shapes[2].points[1]) = 1
  /\ out[1].svg.parts[1] # <<>> /\ out[1].svg.parts[2] = <<>>

\* The text elements of a shape's markup, those inside its group included.
TextCount(part) ==
  Cardinality({i \in 1..Len(part) : part[i].tag = "text"})
  + Cardinality(UNION {{<<i, j>> : j \in {k \in 1..Len(part[i].children) :
                                             part[i].children[k].tag = "text"}} :
                         i \in {g \in 1..Len(part) : part[g].tag = "g"}})

\* The label is absent, or it is the empty string.
NoLabel(shape) == shape.label = None \/ shape.label = Some(<<>>)

\* C4: in every style, the markup of a box-like shape whose label is absent or
\* empty holds no text element.
C4_LabelOmission ==
  (out # None /\ ~out[1].svg.threw)
    => \A i \in 1..Len(state.shapes) :
         (state.shapes[i].type \in BoxTypes /\ NoLabel(state.shapes[i]))
           => TextCount(out[1].svg.parts[i]) = 0

\* A box with an empty label was rendered next to a labelled one, whose text is there.
C4_Witness ==
  /\ out # None /\ ~out[1].svg.threw
  /\ \E i, j \in 1..Len(state.shapes) :
       /\ state.shapes[i].type \in BoxTypes /\ NoLabel(state.shapes[i])
       /\ out[1].svg.parts[i] # <<>> /\ TextCount(out[1].svg.parts[i]) = 0
       /\ ~NoLabel(state.shapes[j]) /\ TextCount(out[1].svg.parts[j]) > 0

\* An arrow of two or more points that has a non-empty label.
LabelledArrow(shape) ==
  /\ shape.type = "arrow" /\ IsSome(shape.points) /\ Len(shape.points[1]) >= 2
  /\ HasLabel(shape)

\* C22: in each style (rough, clean, pro) the markup of an arrow of at least 2 points
\* with a non-empty label holds a text element that carries the label.
C22_ArrowLabelEveryStyle ==
  (out # None /\ ~out[1].svg.threw)
    => \A i \in 1..Len(state.shapes) :
         LabelledArrow(state.shapes[i])
           => \E j \in 1..Len(out[1].svg.parts[i]) :
                /\ out[1].svg.parts[i][j].tag = "text"
                /\ out[1].svg.parts[i][j].content = escapeXml(state.shapes[i].label[1])

\* What holds: the clean and pro styles print the label.
C22_ArrowLabelCleanPro ==
  (out # None /\ ~out[1].svg.threw /\ options.style \in {Some("clean"), Some("pro")})
    => \A i \in 1..Len(state.shapes) :
         LabelledArrow(state.shapes[i])
           => \E j \in 1..Len(out[1].svg.parts[i]) :
                /\ out[1].svg.parts[i][j].tag = "text"
                /\ out[1].svg.parts[i][j].content = escapeXml(state.shapes[i].label[1])

\* The text elements of a shape's markup, those inside its group included.
TextsIn(part) ==
  {part[i] : i \in {k \in 1..Len(part) : part[k].tag = "text"}}
  \cup UNION {{part[i].children[j] : j \in {k \in 1..Len(part[i].children) :
                                               part[i].children[k].tag = "text"}} :
              i \in {g \in 1..Len(part) : part[g].tag = "g"}}

\* C23: in the pro style every label's text element (box, person and arrow labels,
\* text shapes) is filled with the same fixed light colour, whatever the shape's stroke
\* and fill colours are.
C23_ProLabelColour ==
  (out # None /\ ~out[1].svg.threw /\ options.style = Some("pro"))
    => \A i \in 1..Len(state.shapes) :
         \A el \in TextsIn(out[1].svg.parts[i]) : el.fill = "#e2e8f0"

\* What holds: every text element of a shape other than an arrow has that colour.
C23_ProLabelColourButArrows ==
  (out # None /\ ~out[1].svg.threw /\ options.style = Some("pro"))
    => \A i \in 1..Len(state.shapes) :
         state.shapes[i].type # "arrow"
           => \A el \in TextsIn(out[1].svg.parts[i]) : el.fill = "#e2e8f0"

\* The accent colours the shapes' fill colours resolve to, with the default accent.
AccentsOf(shapes) ==
  {getProColor(shapes[i].fillColor).accent : i \in 1..Len(shapes)} \cup {PRO_DEFAULT.accent}

\* How many resources of the defs block have this kind and this id family.
CountDefs(defs, kind, family) ==
  Cardinality({i \in 1..Len(defs) : defs[i].kind = kind /\ defs[i].id[1] = family})

\* The elements of a shape's markup, with those of its groups.
ElementsIn(part) ==
  {part[i] : i \in 1..Len(part)}
  \cup UNION {{part[i].children[j] : j \in 1..Len(part[i].children)} :
              i \in {g \in 1..Len(part) : part[g].tag = "g"}}

\* The ids of the gradients that a shape's markup fills with.
GradientRefs(part) ==
  {el.fill[2] : el \in {e \in ElementsIn(part) :
                          "fill" \in DOMAIN e /\ e.fill \in Seq(STRING) /\ Len(e.fill) = 2
                          /\ e.fill[1] = "pro-grad"}}

\* C24: the gradient that a pro-style shape references has the gradient-top colour (and
\* the gradient-bottom colour, which is the same in every palette entry and in the
\* fallback of the defs) of the theme colour that getProColor resolves for the shape's
\* fill colour, for palette colours and for unmatched ones.
C24_GradientMatchesTheme ==
  (out # None /\ options.style = Some("pro") /\ ~out[1].svg.threw)
    => \A i \in 1..Len(state.shapes) :
         \A id \in GradientRefs(out[1].svg.parts[i]) :
           \A k \in 1..Len(out[1].svg.defs) :
             (out[1].svg.defs[k].kind = "linearGradient"
              /\ out[1].svg.defs[k].id = <<"pro-grad", id>>)
               => out[1].svg.defs[k].colour = getProColor(state.shapes[i].fillColor).gradTop

\* What holds: the same for every fill colour outside the red family, whose accent is
\* that of the pink family.
C24_GradientMatchesButRed ==
  (out # None /\ options.style = Some("pro") /\ ~out[1].svg.threw)
    => \A i \in 1..Len(state.shapes) :
         getProColor(state.shapes[i].fillColor).gradTop # "#2a0d0d"
           => \A id \in GradientRefs(out[1].svg.parts[i]) :
                \E k \in 1..Len(out[1].svg.defs) :
                  /\ out[1].svg.defs[k].kind = "linearGradient"
                  /\ out[1].svg.defs[k].id = <<"pro-grad", id>>
                  /\ out[1].svg.defs[k].colour = getProColor(state.shapes[i].fillColor).gradTop

\* The resources that a shape's pro markup references: the glow filter of a group, the
\* gradient of a fill, the marker of an arrow's path.
ResourceRefs(part) ==
  {[kind |-> "filter", id |-> el.filter] :
     el \in {e \in ElementsIn(part) : "filter" \in DOMAIN e}}
  \cup {[kind |-> "linearGradient", id |-> <<"pro-grad", g>>] : g \in GradientRefs(part)}
  \cup {[kind |-> "marker", id |-> el.marker] :
          el \in {e \in ElementsIn(part) : "marker" \in DOMAIN e}}

\* C27: every glow filter, gradient and arrow marker that the pro markup of a shape of
\* the list references is defined exactly once in the defs built for the same list.
C27_ProReferencesResolve ==
  (out # None /\ options.style = Some("pro") /\ ~out[1].svg.threw)
    => \A i \in 1..Len(state.shapes) :
         \A ref \in ResourceRefs(out[1].svg.parts[i]) :
           Cardinality({k \in 1..Len(out[1].svg.defs) :
                          /\ out[1].svg.defs[k].kind = ref.kind
                          /\ out[1].svg.defs[k].id = ref.id}) = 1

\* A pro document whose shapes reference a filter, a gradient and a marker, one of them
\* of another accent than the default.
C27_Witness ==
  /\ out # None /\ options.style = Some("pro") /\ ~out[1].svg.threw
  /\ \A kind \in {"filter", "linearGradient", "marker"} :
       \E i \in 1..Len(state.shapes) :
         \E ref \in ResourceRefs(out[1].svg.parts[i]) : ref.kind = kind
  /\ \E i \in 1..Len(state.shapes) :
       \E ref \in ResourceRefs(out[1].svg.parts[i]) : ref.id[2] # colorId(PRO_DEFAULT.accent)

\* C10: the pro document's defs hold exactly one glow filter, one gradient and one
\* marker for each distinct accent colour of the shapes (the default accent always
\* being one of them), however many shapes share a colour.
C10_ResourceDedup ==
  (out # None /\ options.style = Some("pro") /\ ~out[1].svg.threw)
    => LET defs    == out[1].svg.defs
           accents == AccentsOf(state.shapes)
           one(kind, family, a) ==
             Cardinality({i \in 1..Len(defs) :
                            defs[i].kind = kind /\ defs[i].id = <<family, colorId(a)>>}) = 1
       IN /\ \A a \in accents : /\ one("filter", "pro-glow", a)
                                /\ one("linearGradient", "pro-grad", a)
                                /\ one("marker", "pro-arrow", a)
          /\ CountDefs(defs, "filter", "pro-glow") = Cardinality(accents)
          /\ CountDefs(defs, "linearGradient", "pro-grad") = Cardinality(accents)
          /\ CountDefs(defs, "marker", "pro-arrow") = Cardinality(accents) + 1

\* Two shapes whose colours share the accent #00ff88 were rendered in the pro style.
C10_Witness ==
  /\ out # None /\ options.style = Some("pro") /\ ~out[1].svg.threw
  /\ \E i, j \in 1..Len(state.shapes) :
       /\ i # j
       /\ getProColor(state.shapes[i].fillColor).accent = "#00ff88"
       /\ getProColor(state.shapes[j].fillColor).accent = "#00ff88"
  /\ CountDefs(out[1].svg.defs, "filter", "pro-glow") = 2

\* A shape that is to contribute no markup: a type no case of the switch names, a line
\* or arrow of fewer than two points or without a point list, a text without its text.
Offending(shape) ==
  \/ shape.type \notin ShapeTypes
  \/ ShortPath(shape)
  \/ MissingField(shape)

\* C11: for every shape list the renderer returns a document and raises nothing; an
\* offending shape adds no markup to it, and every other shape's markup is there.
C11_DegradeByOmission ==
  out # None
    => /\ ~out[1].svg.threw
       /\ \A i \in 1..Len(state.shapes) :
            Offending(state.shapes[i]) <=> out[1].svg.parts[i] = <<>>

\* C11 keeps when every line and arrow has a point list and every text its text.
C11_PresentFieldsDegrade ==
  (out # None /\ \A i \in 1..Len(state.shapes) : ~MissingField(state.shapes[i]))
    => /\ ~out[1].svg.threw
       /\ \A i \in 1..Len(state.shapes) :
            Offending(state.shapes[i]) <=> out[1].svg.parts[i] = <<>>

\* A call of either entry point of the renderer.
RenderCall == Render \/ RenderHtml

\* C12: a call of renderToSvg or renderToSvgHtml, in every style, leaves the canvas
\* state as it was: the same shapes in the same order, every field of every shape
\* (position, size, points, bindings, label) with the value it had before the call.
C12_RenderReadOnly ==
  [][RenderCall => /\ Len(state'.shapes) = Len(state.shapes)
                   /\ \A i \in 1..Len(state.shapes) : state'.shapes[i] = state.shapes[i]
                   /\ state' = state]_vars

\* An arrow of three points at (5, 5), which the renderer offsets to draw, was rendered
\* to the embeddable document and still has the points it had.
C12_Witness ==
  /\ out # None /\ out[1].html /\ ~out[1].svg.threw
  /\ \E i \in 1..Len(state.shapes) :
       /\ state.shapes[i].type = "arrow" /\ state.shapes[i].x = 5
       /\ state.shapes[i].points = Some(<<P(0, 0), P(40, 30), P(80, 0)>>)
       /\ out[1].svg.parts[i] # <<>>

(***************************************************************************)
(* calcFontSize under the labels and boxes below.                          *)
(***************************************************************************)
FontTexts ==
  {<<>>, <<"A">>, <<"\n">>, <<"H", "e", "l", "l", "o">>,
   <<"a", "b", "\n", "c", "d", "e", "f", "g", "h", "i", "j", "k", "l", "m", "n", "o", "p">>}

\* Widths and heights of shapes, the zero ones included, and the part of them
\* (in percent) that a renderer hands to calcFontSize.
FontSizes == {0, 1, 60, 400}
FontParts == {100, 80, 50}
FontBases == {16, 12, 24}

InitFont ==
  /\ args \in {Some([fn |-> "calcFontSize", text |-> t, maxWidth |-> Rat(w * pw, 100), maxHeight |-> Rat(h * pw, 100),
                     baseSize |-> Num(b)]) :
                 t \in FontTexts, w \in FontSizes, h \in FontSizes, pw \in FontParts,
                 b \in FontBases}
  /\ result = None
  /\ IdleRender /\ IdleViewer /\ IdleView /\ IdleStore

\* A renderer asks for the font size of a label.
CallFontSize ==
  /\ IsSome(args) /\ args[1].fn = "calcFontSize"
  /\ result = None
  /\ result' = Some(calcFontSize(args[1].text, args[1].maxWidth, args[1].maxHeight,
                                 args[1].baseSize))
  /\ UNCHANGED <<args, renderVars, viewerVars, viewVars, storeVars>>

NextFont == CallFontSize

SpecFont == InitFont /\ [][NextFont]_vars

\* C5: calcFontSize returns a value strictly greater than 0 and at most
\* min(baseSize, 20), for every label and every box, a zero-width or zero-height
\* one included.
C5_TextFitBound ==
  result # None
    => /\ ~IsNaN(result[1])
       /\ NumLess(Num(0), result[1])
       /\ ~NumLess(NumMin(args[1].baseSize, Num(20)), result[1])

\* C5 keeps for a box whose width and height are positive.
C5_PositiveBoxBound ==
  (result # None /\ NumLess(Num(0), args[1].maxWidth) /\ NumLess(Num(0), args[1].maxHeight))
    => /\ ~IsNaN(result[1])
       /\ NumLess(Num(0), result[1])
       /\ ~NumLess(NumMin(args[1].baseSize, Num(20)), result[1])

(***************************************************************************)
(* calculateBounds under the shape lists and paddings below.               *)
(***************************************************************************)
MaxBoundShapes == 2    \* longest list handed to calculateBounds

BoundShapeSet ==
  {Box("A", "rectangle", 0, 0, 100, 50),
   Box("B", "ellipse", 200, 200, 50, 50),
   Box("C", "cloud", -30, 40, 10, 300),
   Box("Z", "rectangle", 5, 5, 0, 0),
   [BaseShape("L", "line", 50, 50) EXCEPT !.points = Some(<<P(0, 0), P(40, 30)>>)],
   [BaseShape("R", "arrow", 300, 300) EXCEPT !.points = Some(<<P(-20, -10), Pt(1050, 40000)>>)],
   [BaseShape("E", "arrow", 7, 7) EXCEPT !.points = Some(<<>>)],
   [BaseShape("T", "text", 600, 10) EXCEPT !.text = Some(<<"t">>)]}

Paddings == {0, 10, 200, 500, -5}

InitBounds ==
  /\ args \in {Some([fn |-> "calculateBounds", shapes |-> l, padding |-> p]) :
                 l \in UNION {[1..n -> BoundShapeSet] : n \in 0..MaxBoundShapes},
                 p \in Paddings}
  /\ result = None
  /\ IdleRender /\ IdleViewer /\ IdleView /\ IdleStore

\* A caller asks for the bounds of a shape list.
CallBounds ==
  /\ IsSome(args) /\ args[1].fn = "calculateBounds"
  /\ result = None
  /\ result' = Some(calculateBounds(args[1].shapes, args[1].padding))
  /\ UNCHANGED <<args, renderVars, viewerVars, viewVars, storeVars>>

NextBounds == CallBounds

SpecBounds == InitBounds /\ [][NextBounds]_vars

\* C6: on an empty shape list calculateBounds returns (0,0)-(1200,800) whatever
\* the padding; the padding is not applied to it.
C6_BoundsEmpty ==
  (result # None /\ args[1].shapes = <<>>)
    => result[1] = [minX |-> Num(0), minY |-> Num(0), maxX |-> Num(1200), maxY |-> Num(800)]

\* The bounds of the empty list were asked for with padding 500.
C6_Witness ==
  result # None /\ args[1].shapes = <<>> /\ args[1].padding = 500 /\ result[1].maxX = Num(1200)

\* The left/top and right/bottom extents (in hundredths) that a shape brings to the
\* union: a box its corners, a line or arrow its points as they are stored.
IsBox(shape)  == shape.type \in BoxTypes /\ IsSome(shape.width) /\ IsSome(shape.height)
IsPath(shape) == shape.type \in PathTypes /\ IsSome(shape.points)
LowCorners(shape) ==
  IF IsBox(shape) THEN {Pt(H(shape.x), H(shape.y))}
  ELSE {shape.points[1][i] : i \in 1..Len(shape.points[1])}
HighCorners(shape) ==
  IF IsBox(shape) THEN {Pt(H(shape.x + shape.width[1]), H(shape.y + shape.height[1]))}
  ELSE {shape.points[1][i] : i \in 1..Len(shape.points[1])}
MinOf(S) == CHOOSE m \in S : \A o \in S : m <= o
MaxOf(S) == CHOOSE m \in S : \A o \in S : m >= o

\* C7: for a non-empty list of box-like shapes, lines and arrows, calculateBounds
\* returns the least x and y minus the padding and the greatest x + width and
\* y + height plus the padding, a line or arrow counting with its stored points,
\* not offset by its x and y.
C7_BoundsUnion ==
  LET shapes == args[1].shapes
      pad    == H(args[1].padding)
      low    == UNION {LowCorners(shapes[i]) : i \in 1..Len(shapes)}
      high   == UNION {HighCorners(shapes[i]) : i \in 1..Len(shapes)}
  IN (/\ result # None /\ shapes # <<>>
      /\ \A i \in 1..Len(shapes) : IsBox(shapes[i]) \/ IsPath(shapes[i])
      /\ low # {})
       => result[1] = [minX |-> Rat(MinOf({c.x : c \in low}) - pad, 100),
                       minY |-> Rat(MinOf({c.y : c \in low}) - pad, 100),
                       maxX |-> Rat(MaxOf({c.x : c \in high}) + pad, 100),
                       maxY |-> Rat(MaxOf({c.y : c \in high}) + pad, 100)]

\* The bounds of a box and of an arrow placed at (300, 300) were asked for: the
\* arrow's stored points (-20,-10) and (10.5,400) set the left and bottom edges.
C7_Witness ==
  /\ result # None /\ Len(args[1].shapes) = 2 /\ args[1].padding = 10
  /\ args[1].shapes[1].id = "A" /\ args[1].shapes[2].id = "R"
  /\ result[1] = [minX |-> Num(-30), minY |-> Num(-20), maxX |-> Num(110), maxY |-> Num(410)]

\* The bounds are four finite numbers, the least no greater than the greatest.
WellFormed(b) ==
  /\ IsFinite(b.minX) /\ IsFinite(b.minY) /\ IsFinite(b.maxX) /\ IsFinite(b.maxY)
  /\ ~NumLess(b.maxX, b.minX)
  /\ ~NumLess(b.maxY, b.minY)

\* C28: for every non-empty shape list, the lines and arrows with point lists of any
\* length from 0 on, and every padding of 0 or more, calculateBounds returns finite
\* numbers with minX <= maxX and minY <= maxY.
C28_BoundsWellFormed ==
  (result # None /\ args[1].shapes # <<>> /\ args[1].padding >= 0)
    => WellFormed(result[1])

\* What holds: the same for the lists in which some shape is no line or arrow with
\* points, or is one with at least one point.
C28_BoundsWellFormedWithPoint ==
  (/\ result # None /\ args[1].padding >= 0
   /\ \E i \in 1..Len(args[1].shapes) :
        IsPath(args[1].shapes[i]) => args[1].shapes[i].points[1] # <<>>)
    => WellFormed(result[1])

(***************************************************************************)
(* getAnchorPoint under the shapes and anchors below.                      *)
(***************************************************************************)
AnchorShapes ==
  {[BaseShape("s", "rectangle", x, y) EXCEPT !.width = w, !.height = h] :
     x \in {10, -5}, y \in {10, 0},
     w \in {None, Some(0), Some(100), Some(25)},
     h \in {None, Some(0), Some(50), Some(7)}}

InitAnchor ==
  /\ args \in {Some([fn |-> "getAnchorPoint", shape |-> sh, anchor |-> a]) :
                 sh \in AnchorShapes, a \in Anchors \cup {"middle"}}
  /\ result = None
  /\ IdleRender /\ IdleViewer /\ IdleView /\ IdleStore

\* updateBoundArrows asks for an anchor point of the moved shape.
CallAnchor ==
  /\ IsSome(args) /\ args[1].fn = "getAnchorPoint"
  /\ result = None
  /\ result' = Some(getAnchorPoint(args[1].shape, args[1].anchor))
  /\ UNCHANGED <<args, renderVars, viewerVars, viewVars, storeVars>>

NextAnchor == CallAnchor

SpecAnchor == InitAnchor /\ [][NextAnchor]_vars

\* The point (in hundredths) of the anchor on the box (x, y, w, h).
AnchorOf(x, y, w, h, anchor) ==
  CASE anchor = "top"    -> Pt(100 * x + 50 * w, 100 * y)
    [] anchor = "bottom" -> Pt(100 * x + 50 * w, 100 * y + 100 * h)
    [] anchor = "left"   -> Pt(100 * x, 100 * y + 50 * h)
    [] anchor = "right"  -> Pt(100 * x + 100 * w, 100 * y + 50 * h)
    [] anchor \in {"center", "auto"} -> Pt(100 * x + 50 * w, 100 * y + 50 * h)

\* C8: for a shape at (x, y) of size (w, h), getAnchorPoint returns
\* top = (x+w/2, y), bottom = (x+w/2, y+h), left = (x, y+h/2), right = (x+w, y+h/2),
\* center = (x+w/2, y+h/2), and auto returns the point of center.
C8_AnchorCorrectness ==
  LET sh == args[1].shape
  IN (result # None /\ IsSome(sh.width) /\ IsSome(sh.height) /\ args[1].anchor \in Anchors)
       => result[1] = AnchorOf(sh.x, sh.y, sh.width[1], sh.height[1], args[1].anchor)

\* C8 keeps for a shape whose width and height are not zero.
C8_NonZeroSizeAnchor ==
  LET sh == args[1].shape
  IN (/\ result # None /\ args[1].anchor \in Anchors
      /\ IsSome(sh.width) /\ IsSome(sh.height) /\ sh.width[1] # 0 /\ sh.height[1] # 0)
       => result[1] = AnchorOf(sh.x, sh.y, sh.width[1], sh.height[1], args[1].anchor)

(***************************************************************************)
(* The viewer under the canvases and pointer events below.                 *)
(***************************************************************************)
MaxCoord   == 20   \* a drag keeps the shape's x and y between 0 and this
MaxPending == 1    \* mouseup handlers suspended at their fetch at one time

Arrow(id, pts, startBinding, endBinding) ==
  [BaseShape(id, "arrow", 0, 0) EXCEPT !.points = pts, !.startBinding = startBinding,
                                      !.endBinding = endBinding]

ViewerCanvases ==
  {[shapes |-> <<Box("a", "rectangle", 10, 10, 100, 50),
                 Arrow("ar1", Some(<<P(110, 35), P(300, 35)>>),
                       Some(ObjectBinding("a", "right")), Some(StringBinding("ghost"))),
                 Arrow("ar2", Some(<<P(0, 0), P(50, 50)>>), Some(StringBinding("ghost")), None),
                 BaseShape("b", "ellipse", 20, 10),
                 Arrow("ar3", Some(<<P(70, 35), P(65, 20), P(60, 10)>>),
                       Some(StringBinding("b")), Some(OffsetBinding("a", "top", 5, -3)))>>],
   [shapes |-> <<Box("a", "diamond", 20, 20, 100, 50),
                 Arrow("ar4", Some(<<P(70, 45)>>),
                       Some(StringBinding("a")), Some(ObjectBinding("ghost", "left"))),
                 Arrow("ar5", None, Some(StringBinding("a")), Some(StringBinding("ghost"))),
                 [BaseShape("t", "text", 15, 15) EXCEPT !.text = Some(<<"t">>)]>>],
   [shapes |-> <<Box("c", "rectangle", 10, 10, 100, 50),
                 Arrow("ar6", Some(<<P(1, 1), P(2, 2)>>),
                       Some(StringBinding("")), Some(ObjectBinding("ghost", "auto"))),
                 Arrow("ar7", Some(<<P(3, 3), P(4, 4)>>),
                       Some(ObjectBinding("a", "bottom")), Some(StringBinding("c")))>>]}

\* Canvas points under the pointer at a mousedown, and what a mousemove adds to the
\* dragged shape's position.
ClickPoints == {<<5, 5>>, <<125, 75>>, <<500, 500>>}
Deltas == {<<10, 10>>, <<-10, -10>>}

InitViewer ==
  /\ canvasState = None /\ selectedShape = None /\ mode = "select"
  /\ isDragging = FALSE /\ isPanning = FALSE /\ draggedArrows = <<>>
  /\ posted = None /\ mouseUps = 0
  /\ IdleRender /\ IdleCall /\ IdleView /\ IdleStore

\* ws.onmessage with a state or update message, on the viewer's variables: the canvas
\* is replaced, and a selected shape, an object of the canvas before, is no object of
\* the new one (index 0).
OnMessage(canvas) ==
  /\ canvasState' = Some(canvas)
  /\ selectedShape' = IF IsSome(selectedShape)
                      THEN Some([selectedShape[1] EXCEPT !.index = 0]) ELSE None
  /\ UNCHANGED <<mode, isDragging, isPanning, draggedArrows, posted, mouseUps>>

\* A message with another canvas than the viewer has arrives.
WsOnMessage(canvas) ==
  /\ canvasState # Some(canvas)
  /\ OnMessage(canvas)
  /\ UNCHANGED <<renderVars, callVars, viewVars, storeVars>>

setMode(newMode) ==
  /\ mode' = newMode
  /\ selectedShape' = IF newMode = "pan" THEN None ELSE selectedShape
  /\ UNCHANGED <<canvasState, isDragging, isPanning, draggedArrows, posted, mouseUps,
                 renderVars, callVars, viewVars, storeVars>>

\* mousedown of the left button over the canvas point pt.
MouseDown(pt) ==
  LET i == findShapeAt(canvasState, pt[1], pt[2])
  IN /\ IF mode = "pan"
        THEN isPanning' = TRUE /\ UNCHANGED <<selectedShape, isDragging>>
        ELSE IF i # 0
             THEN /\ selectedShape' = Some([shape |-> canvasState[1].shapes[i], index |-> i])
                  /\ isDragging' = TRUE
                  /\ UNCHANGED isPanning
             ELSE /\ selectedShape' = None
                  /\ isPanning' = TRUE
                  /\ UNCHANGED isDragging
     /\ UNCHANGED <<canvasState, mode, draggedArrows, posted, mouseUps, renderVars, callVars, viewVars, storeVars>>

\* The canvas after selectedShape.x += dx, selectedShape.y += dy: the selected shape is
\* the object at its index of the canvas, or no object of it.
Dragged(canvas, sel, moved) ==
  IF IsSome(canvas) /\ sel.index # 0
  THEN Some([canvas[1] EXCEPT !.shapes[sel.index] = moved])
  ELSE canvas

\* mousemove by d; panning moves the view only.
MouseMove(d) ==
  IF isDragging /\ IsSome(selectedShape)
  THEN LET sel   == selectedShape[1]
           moved == [sel.shape EXCEPT !.x = @ + d[1], !.y = @ + d[2]]
           r     == updateBoundArrows(Dragged(canvasState, sel, moved), moved)
       IN /\ moved.x \in 0..MaxCoord /\ moved.y \in 0..MaxCoord
          /\ selectedShape' = Some([sel EXCEPT !.shape = moved])
          /\ canvasState' = IF IsSome(canvasState)
                            THEN Some([canvasState[1] EXCEPT !.shapes = r.shapes]) ELSE None
          /\ draggedArrows' = r.updated
          /\ UNCHANGED <<mode, isDragging, isPanning, posted, mouseUps, renderVars, callVars, viewVars, storeVars>>
  ELSE UNCHANGED vars

\* mouseup up to its fetch, on the viewer's variables: with a drag going on the handler
\* posts the update and waits for the answer.
OnMouseUp ==
  IF isDragging /\ IsSome(selectedShape)
  THEN /\ mouseUps < MaxPending
       /\ posted' = Some([action |-> "update",
                          shapes |-> <<selectedShape[1].shape>> \o draggedArrows])
       /\ mouseUps' = mouseUps + 1
       /\ UNCHANGED <<canvasState, selectedShape, mode, isDragging, isPanning, draggedArrows>>
  ELSE /\ isDragging' = FALSE /\ isPanning' = FALSE
       /\ UNCHANGED <<canvasState, selectedShape, mode, draggedArrows, posted, mouseUps>>

MouseUp == OnMouseUp /\ UNCHANGED <<renderVars, callVars, viewVars, storeVars>>

\* The fetch of a mouseup handler has answered: the handler runs to its end.
OnMouseUpDone ==
  /\ mouseUps > 0
  /\ mouseUps' = mouseUps - 1
  /\ draggedArrows' = <<>>
  /\ isDragging' = FALSE /\ isPanning' = FALSE
  /\ UNCHANGED <<canvasState, selectedShape, mode, posted>>

MouseUpDone == OnMouseUpDone /\ UNCHANGED <<renderVars, callVars, viewVars, storeVars>>

\* keydown of Escape.
KeyEscape ==
  /\ selectedShape' = None
  /\ UNCHANGED <<canvasState, mode, isDragging, isPanning, draggedArrows, posted, mouseUps,
                 renderVars, callVars, viewVars, storeVars>>

NextViewer ==
  \/ \E canvas \in ViewerCanvases : WsOnMessage(canvas)
  \/ \E m \in {"select", "pan"} : setMode(m)
  \/ \E pt \in ClickPoints : MouseDown(pt)
  \/ \E d \in Deltas : MouseMove(d)
  \/ MouseUp
  \/ MouseUpDone
  \/ KeyEscape

SpecViewer == InitViewer /\ [][NextViewer]_vars

\* The ids of the shapes of a canvas.
IdsOf(canvas) == {canvas.shapes[i].id : i \in 1..Len(canvas.shapes)}

\* The binding names the shape id.
Names(binding, id) ==
  IsSome(binding) /\ ~(binding[1].str /\ binding[1].shapeId = "") /\ binding[1].shapeId = id

\* The arrow has a start or end binding that names a shape id of no shape of the canvas.
Dangling(canvas, shape) ==
  /\ shape.type = "arrow"
  /\ \E b \in {shape.startBinding, shape.endBinding} :
       /\ IsSome(b) /\ ~(b[1].str /\ b[1].shapeId = "")
       /\ b[1].shapeId \notin IdsOf(canvas)

\* A mousemove of a drag: updateBoundArrows runs on the canvas for the dragged shape.
DragStep ==
  /\ isDragging /\ IsSome(selectedShape) /\ IsSome(canvasState)
  /\ \E d \in Deltas : MouseMove(d)

Returned(arrows, shape) == \E j \in 1..Len(arrows) : arrows[j].id = shape.id

BoundPoint(binding, movedShape) ==
  LET anchor == IF ~binding.str /\ IsSome(binding.anchor) THEN binding.anchor[1] ELSE "auto"
      pt     == getAnchorPoint(movedShape, anchor)
  IN Pt(pt.x + H(OrElse(binding.offsetX, 0)), pt.y + H(OrElse(binding.offsetY, 0)))

\* The same without the offset.
AnchorPoint(binding, movedShape) ==
  LET anchor == IF ~binding.str /\ IsSome(binding.anchor) THEN binding.anchor[1] ELSE "auto"
  IN getAnchorPoint(movedShape, anchor)

HasPoint(shape) == IsSome(shape.points) /\ shape.points[1] # <<>>

\* C13: updateBoundArrows(movedShape) sets the first point of every arrow whose start
\* binding names movedShape.id, and the last point of every arrow whose end binding
\* names it, to movedShape's anchor point for the binding's anchor plus the binding's
\* offset (offsetX, offsetY), and returns exactly the arrows it changed.  Stated for
\* the arrows that have a point to set.
C13_EndpointRecomputation ==
  [][DragStep =>
       \A i \in 1..Len(canvasState[1].shapes) :
         LET shape == canvasState[1].shapes[i]
             after == canvasState'[1].shapes[i]
             moved == selectedShape'[1].shape
             start == Names(shape.startBinding, moved.id)
             end   == Names(shape.endBinding, moved.id)
         IN (shape.type = "arrow" /\ shape.id # moved.id /\ HasPoint(shape))
              => /\ start /\ ~(end /\ Len(shape.points[1]) = 1)
                      => after.points[1][1] = BoundPoint(shape.startBinding[1], moved)
                 /\ end => after.points[1][Len(after.points[1])]
                             = BoundPoint(shape.endBinding[1], moved)
                 /\ Returned(draggedArrows', shape) <=> (start \/ end)
                 /\ ~(start \/ end) => after = shape]_vars

\* What the code does: the endpoint is set to the anchor point, the offset left out.
C13_EndpointAtAnchor ==
  [][DragStep =>
       \A i \in 1..Len(canvasState[1].shapes) :
         LET shape == canvasState[1].shapes[i]
             after == canvasState'[1].shapes[i]
             moved == selectedShape'[1].shape
             start == Names(shape.startBinding, moved.id)
             end   == Names(shape.endBinding, moved.id)
         IN (shape.type = "arrow" /\ shape.id # moved.id /\ HasPoint(shape))
              => /\ start /\ ~(end /\ Len(shape.points[1]) = 1)
                      => after.points[1][1] = AnchorPoint(shape.startBinding[1], moved)
                 /\ end => after.points[1][Len(after.points[1])]
                             = AnchorPoint(shape.endBinding[1], moved)
                 /\ Returned(draggedArrows', shape) <=> (start \/ end)
                 /\ ~(start \/ end) => after = shape]_vars

(***************************************************************************)
(* The canvas store under the requests below.  The store handles a request *)
(* from its first statement to its answer before it takes the next one:    *)
(* its awaits are storage operations, during which a durable object is     *)
(* delivered no other event.                                               *)
(***************************************************************************)
MaxStored == 2     \* shapes in the store's canvas
MaxInbox  == 2     \* messages on the viewer's socket that it has not received yet

StoreBox      == Box("a", "rectangle", 10, 10, 100, 50)
StoreBoxMoved == Box("a", "rectangle", 60, 40, 100, 50)
StoreArrow    == Arrow("ar", Some(<<P(110, 35), P(300, 35)>>),
                       Some(ObjectBinding("a", "right")), None)
StoreNoId     == Box("", "ellipse", 0, 0, 50, 50)
StoreUnknown  == Box("z", "diamond", 5, 5, 20, 20)

DrawCommands ==
  {Command("add", Some(<<sh>>), None) : sh \in {StoreBox, StoreArrow, StoreNoId}}
  \cup {Command("add", None, None), Command("add", Some(<<StoreArrow, StoreBox>>), None)}
  \cup {Command("update", l, None) :
          l \in {None, Some(<<StoreBoxMoved>>), Some(<<StoreUnknown, StoreBox>>),
                 Some(<<StoreNoId>>)}}
  \cup {Command("delete", None, ids) : ids \in {None, Some(<<"a">>), Some(<<"z", "ar">>)}}
  \cup {Command(a, None, None) : a \in {"clear", "snapshot", "reset", "noop"}}

PutBodies ==
  {[shapes |-> Some(<<StoreBox, StoreBox>>), backgroundColor |-> None],
   [shapes |-> Some(<<>>), backgroundColor |-> Some("#000000")],
   [shapes |-> None, backgroundColor |-> Some("")]}

InitStore ==
  /\ doCanvas = EmptyCanvas /\ initialCanvas = None
  /\ sockets = [s \in Sessions |-> ClosedSocket]
  /\ inbox = <<>> /\ requests = <<>> /\ responses = 0
  /\ IdleRender /\ IdleCall /\ IdleViewer /\ IdleView

\* broadcast(message) and what it puts on the viewer's socket.
Broadcast(message) ==
  /\ Len(inbox) < MaxInbox
  /\ sockets' = broadcast(sockets, message)
  /\ inbox' = IF sockets[Viewer].open THEN Append(inbox, message) ELSE inbox

\* The upgrade request of session s: the socket is accepted and sent the canvas.
WebSocketUpgrade(s) ==
  /\ ~sockets[s].open
  /\ s = Viewer => Len(inbox) < MaxInbox
  /\ sockets' = [sockets EXCEPT ![s] = Send([open |-> TRUE, last |-> None],
                                             StateMessage(doCanvas))]
  /\ inbox' = IF s = Viewer THEN Append(inbox, StateMessage(doCanvas)) ELSE inbox
  /\ UNCHANGED <<doCanvas, initialCanvas, requests, responses, renderVars, callVars,
                 viewerVars, viewVars>>

\* The socket of a session other than the viewer's closes: getWebSockets() yields it
\* no more.
webSocketClose(s) ==
  /\ s # Viewer /\ sockets[s].open
  /\ sockets' = [sockets EXCEPT ![s] = ClosedSocket]
  /\ UNCHANGED <<doCanvas, initialCanvas, inbox, requests, responses, renderVars, callVars,
                 viewerVars, viewVars>>

\* Faulty variant of StorePost: every add that leaves shapes on the canvas saves the
\* snapshot, whether one exists or not.
StorePostResnapshot(cmd) ==
  CASE cmd.action = "snapshot" ->
         /\ initialCanvas' = Some(doCanvas)
         /\ UNCHANGED <<doCanvas, sockets, inbox>>
    [] cmd.action = "reset" ->
         IF IsSome(initialCanvas)
         THEN /\ doCanvas' = [doCanvas EXCEPT !.shapes = initialCanvas[1].shapes]
              /\ Broadcast(StateMessage(doCanvas'))
              /\ UNCHANGED initialCanvas
         ELSE UNCHANGED <<doCanvas, initialCanvas, sockets, inbox>>
    [] OTHER ->
         /\ doCanvas' = [doCanvas EXCEPT !.shapes = ApplyCommand(@, cmd)]
         /\ Len(doCanvas'.shapes) <= MaxStored
         /\ initialCanvas' = IF /\ cmd.action = "add" /\ IsSome(cmd.shapes)
                                /\ doCanvas'.shapes # <<>>
                             THEN Some(doCanvas') ELSE initialCanvas
         /\ Broadcast(UpdateMessage(cmd, doCanvas'))

\* The store's POST handler on the body cmd, ids generated: the snapshot and reset
\* actions, then the draw commands.
StorePost(cmd) ==
  CASE cmd.action = "snapshot" ->
         /\ initialCanvas' = Some(doCanvas)
         /\ UNCHANGED <<doCanvas, sockets, inbox>>
    [] cmd.action = "reset" ->
         IF IsSome(initialCanvas)
         THEN /\ doCanvas' = [doCanvas EXCEPT !.shapes = initialCanvas[1].shapes]
              /\ Broadcast(StateMessage(doCanvas'))
              /\ UNCHANGED initialCanvas
         ELSE UNCHANGED <<doCanvas, initialCanvas, sockets, inbox>>
    [] OTHER ->
         /\ doCanvas' = [doCanvas EXCEPT !.shapes = ApplyCommand(@, cmd)]
         /\ Len(doCanvas'.shapes) <= MaxStored
         /\ initialCanvas' = IF /\ cmd.action = "add" /\ IsSome(cmd.shapes)
                                /\ ~IsSome(initialCanvas) /\ doCanvas'.shapes # <<>>
                             THEN Some(doCanvas') ELSE initialCanvas
         /\ Broadcast(UpdateMessage(cmd, doCanvas'))

\* POST /canvas/:id/draw from a client of the API: the route generates the missing
\* ids and hands the command to the store.
PostDraw(cmd, gen) ==
  /\ StorePost(GenerateIds(cmd, gen))
  /\ UNCHANGED <<requests, responses, renderVars, callVars, viewerVars, viewVars>>

\* PUT /canvas/:id.
PutCanvas(newCanvas) ==
  /\ doCanvas' = [shapes |-> IF IsSome(newCanvas.shapes) THEN newCanvas.shapes[1]
                               ELSE doCanvas.shapes,
                  backgroundColor |-> IF Truthy(newCanvas.backgroundColor)
                                        THEN newCanvas.backgroundColor
                                        ELSE doCanvas.backgroundColor]
  /\ Len(doCanvas'.shapes) <= MaxStored
  /\ Broadcast(StateMessage(doCanvas'))
  /\ UNCHANGED <<initialCanvas, requests, responses, renderVars, callVars, viewerVars, viewVars>>

\* DELETE /canvas/:id.
DeleteCanvas ==
  /\ doCanvas' = [doCanvas EXCEPT !.shapes = <<>>]
  /\ Broadcast(StateMessage(doCanvas'))
  /\ UNCHANGED <<initialCanvas, requests, responses, renderVars, callVars, viewerVars, viewVars>>

NextStore ==
  \/ \E s \in Sessions \ {Viewer} : WebSocketUpgrade(s)
  \/ \E s \in Sessions : webSocketClose(s)
  \/ \E cmd \in DrawCommands, g \in GeneratedIds : PostDraw(cmd, <<g, g>>)
  \/ \E body \in PutBodies : PutCanvas(body)
  \/ DeleteCanvas

SpecStore == InitStore /\ [][NextStore]_vars

\* A draw command with the update action and a shape list, the ids the route
\* generated for it, and the store's handling of it.
UpdateCommands == {cmd \in DrawCommands : cmd.action = "update" /\ IsSome(cmd.shapes)}
GenChoices == {<<g, g>> : g \in GeneratedIds}

\* The rendered place of an arrow's i-th point: the arrow's x, y plus the point.
RenderedPoint(arrow, i) ==
  Pt(H(arrow.x) + arrow.points[1][i].x, H(arrow.y) + arrow.points[1][i].y)

\* The arrow's bound endpoints are at the anchor points of the shape.
ConnectedTo(arrow, shape) ==
  /\ Names(arrow.startBinding, shape.id)
       => RenderedPoint(arrow, 1) = AnchorPoint(arrow.startBinding[1], shape)
  /\ Names(arrow.endBinding, shape.id)
       => RenderedPoint(arrow, Len(arrow.points[1])) = AnchorPoint(arrow.endBinding[1], shape)

\* C14: whenever an update draw command changes the position of a shape of the stored
\* canvas, every arrow of the canvas whose start or end binding names that shape has
\* afterwards the bound endpoint, as rendered, at the shape's anchor point.
C14_ArrowsStayConnected ==
  [][\A cmd \in UpdateCommands, gen \in GenChoices :
       PostDraw(cmd, gen) =>
         \A i \in 1..Len(doCanvas.shapes) :
           LET before == doCanvas.shapes[i]
               after  == doCanvas'.shapes[i]
           IN (after.x # before.x \/ after.y # before.y)
                => \A k \in 1..Len(doCanvas'.shapes) :
                     LET arrow == doCanvas'.shapes[k]
                     IN (arrow.type = "arrow" /\ HasPoint(arrow))
                          => ConnectedTo(arrow, after)]_vars

\* What a call of updateBoundArrows(movedShape) may change of one shape of the canvas:
\* of an arrow the first point if its start binding names the moved shape, and the
\* last point if its end binding does, and nothing else.
FrameOf(before, after, movedShape) ==
  IF before.type # "arrow"
     \/ ~(Names(before.startBinding, movedShape.id) \/ Names(before.endBinding, movedShape.id))
  THEN after = before
  ELSE /\ [after EXCEPT !.points = before.points] = before
       /\ IsSome(after.points) = IsSome(before.points)
       /\ IsSome(before.points) =>
            /\ Len(after.points[1]) = Len(before.points[1])
            /\ \A k \in 1..Len(before.points[1]) :
                 \/ after.points[1][k] = before.points[1][k]
                 \/ k = 1 /\ Names(before.startBinding, movedShape.id)
                 \/ k = Len(before.points[1]) /\ Names(before.endBinding, movedShape.id)

\* C29: a call updateBoundArrows(movedShape) leaves unchanged every shape that is no
\* arrow (movedShape too), every arrow none of whose bindings names movedShape.id, and
\* of an arrow it changes everything but the first point (start binding) and the last
\* point (end binding): the points between and the bindings stay.
C29_UpdateBoundArrowsFrame ==
  [][\A d \in Deltas :
       (MouseMove(d) /\ isDragging /\ IsSome(selectedShape) /\ IsSome(canvasState))
         => LET moved  == selectedShape'[1].shape
                before == Dragged(canvasState, selectedShape[1], moved)[1].shapes
                after  == canvasState'[1].shapes
            IN /\ Len(after) = Len(before)
               /\ \A i \in 1..Len(before) : FrameOf(before[i], after[i], moved)]_vars

\* A drag has rebound the last point of an arrow of three points, in a canvas that
\* has an arrow bound to no shape of it and an arrow bound to the other box.
C29_Witness ==
  /\ isDragging /\ IsSome(selectedShape) /\ IsSome(canvasState)
  /\ selectedShape[1].shape.id = "a" /\ selectedShape[1].index # 0
  /\ \E i \in 1..Len(draggedArrows) :
       /\ draggedArrows[i].id = "ar3"
       /\ draggedArrows[i].points[1][1] = P(70, 35)
       /\ draggedArrows[i].points[1][2] = P(65, 20)
       /\ draggedArrows[i].points[1][3] # P(60, 10)
  /\ \E i \in 1..Len(canvasState[1].shapes) :
       /\ canvasState[1].shapes[i].id = "ar2"
       /\ canvasState[1].shapes[i].points = Some(<<P(0, 0), P(50, 50)>>)

\* A mouseup ends a drag during which arrows were rebound, and no handler is waiting
\* for the answer to an update request: the drag ends without a request.
DragEndsUnposted ==
  /\ isDragging /\ ~isDragging'
  /\ draggedArrows # <<>>
  /\ mouseUps = 0

\* The selected shape changes its position while a mouseup handler waits for the
\* answer to its request.
MovedAfterMouseUp ==
  /\ mouseUps > 0
  /\ IsSome(selectedShape) /\ IsSome(selectedShape')
  /\ selectedShape'[1].index = selectedShape[1].index
  /\ selectedShape'[1].shape.id = selectedShape[1].shape.id
  /\ \/ selectedShape'[1].shape.x # selectedShape[1].shape.x
     \/ selectedShape'[1].shape.y # selectedShape[1].shape.y

\* C26: a drag that moved a shape ends with an update request containing the moved
\* shape and the arrows rebound during the drag, whatever key presses, mode switches,
\* mouse events and messages come between mousedown and mouseup, and after mouseup no
\* mousemove changes the shape.
C26_DragPersisted == [][~DragEndsUnposted /\ ~MovedAfterMouseUp]_vars

\* C26, the first half alone: no drag that rebound arrows ends without a request.
C26_DragEndPosts == [][~DragEndsUnposted]_vars

\* C26, the second half alone: no mousemove moves the shape after mouseup.
C26_NoMoveAfterMouseUp == [][~MovedAfterMouseUp]_vars

\* The canvas store under HTTP requests alone: no session connects.
NextSnapshot ==
  \/ \E cmd \in DrawCommands, g \in GeneratedIds : PostDraw(cmd, <<g, g>>)
  \/ \E body \in PutBodies : PutCanvas(body)
  \/ DeleteCanvas

SpecSnapshot == InitStore /\ [][NextSnapshot]_vars

\* The only steps that set the snapshot: the snapshot action saves the canvas as it
\* is, and without a snapshot an add saves the canvas it leaves.  Every other step,
\* the add, update, delete and clear commands after a snapshot among them, leaves it.
SnapshotKept ==
  \/ initialCanvas' = initialCanvas
  \/ initialCanvas' = Some(doCanvas)
  \/ ~IsSome(initialCanvas) /\ initialCanvas' = Some(doCanvas')

ResetCommand == Command("reset", None, None)
SnapshotCommand == Command("snapshot", None, None)

\* A reset with a snapshot gives the canvas the snapshot's shapes and keeps the
\* snapshot; the snapshot action saves the canvas of the moment.
RestoredByReset ==
  \A gen \in GenChoices :
    /\ (PostDraw(ResetCommand, gen) /\ IsSome(initialCanvas))
         => doCanvas'.shapes = initialCanvas[1].shapes /\ initialCanvas' = initialCanvas
    /\ PostDraw(SnapshotCommand, gen) => initialCanvas' = Some(doCanvas)

\* Without a snapshot a reset changes nothing: not the canvas, not the snapshot, and it
\* sends no message.
ResetWithoutSnapshot ==
  ~IsSome(initialCanvas)
    => \A gen \in GenChoices : ~ENABLED <<PostDraw(ResetCommand, gen)>>_vars

UniqueIds(shapes) ==
  \A i, j \in 1..Len(shapes) : shapes[i].id = shapes[j].id => i = j

\* C15: after any sequence of add, update, delete and clear commands, PUT
\* replacements and resets, no two shapes of the canvas have the same id.
C15_IdUniqueness == UniqueIds(doCanvas.shapes)

\* The supplied shape that an update leaves in the place of the stored shapes of this
\* id: the last one supplied with it.
LastSupplied(supplied, id) ==
  supplied[CHOOSE k \in 1..Len(supplied) :
             /\ supplied[k].id = id
             /\ \A m \in 1..Len(supplied) : supplied[m].id = id => m <= k]

\* What C16 says of an update with the supplied shapes: each stored shape whose id is
\* the id of a supplied shape is replaced in its place, the others stay, and nothing
\* is added.
UpdatedById(before, after, supplied) ==
  /\ Len(after) = Len(before)
  /\ \A i \in 1..Len(before) :
       IF \E k \in 1..Len(supplied) : supplied[k].id = before[i].id
       THEN after[i] = LastSupplied(supplied, before[i].id)
       ELSE after[i] = before[i]

\* C16: an update draw command replaces, at its place in the order, each stored shape
\* whose id equals the id of a supplied shape, ignores a supplied shape whose id
\* matches no stored shape, and leaves the number and order of the shapes as they were.
C16_UpdateById ==
  [][\A cmd \in UpdateCommands, gen \in GenChoices :
       PostDraw(cmd, gen) =>
         UpdatedById(doCanvas.shapes, doCanvas'.shapes, GenerateIds(cmd, gen).shapes[1])]_vars

\* C16 keeps while the ids of the stored shapes are unique.
C16_UpdateByUniqueId ==
  [][\A cmd \in UpdateCommands, gen \in GenChoices :
       (PostDraw(cmd, gen) /\ UniqueIds(doCanvas.shapes)) =>
         UpdatedById(doCanvas.shapes, doCanvas'.shapes, GenerateIds(cmd, gen).shapes[1])]_vars

\* The last message sent on each open socket carries the store's canvas.
LastSentIsCurrent ==
  \A s \in Sessions :
    sockets[s].open => IsSome(sockets[s].last) /\ sockets[s].last[1].canvas = doCanvas

\* A step that changes the canvas sends every open socket a message that carries the
\* canvas after the step.
ChangeIsBroadcast ==
  doCanvas' # doCanvas
    => \A s \in Sessions :
         sockets[s].open
           => /\ sockets'[s].last # sockets[s].last
              /\ sockets'[s].last[1].canvas = doCanvas'

\* C17: every request that changes the canvas sends each connected session a message
\* carrying the canvas, and between requests the last message sent to each connected
\* session carries the store's current canvas.
C17_LiveUpdates == [][ChangeIsBroadcast]_vars /\ []LastSentIsCurrent

\* Two sessions are connected to a canvas that a draw command filled, and the last
\* message on each is the update message with that canvas.
C17_Witness ==
  /\ sockets["w"].open /\ sockets["u"].open /\ Len(doCanvas.shapes) = 2
  /\ \A s \in {"w", "u"} :
       sockets[s].last = Some(UpdateMessage(Command("noop", None, None), doCanvas))

(***************************************************************************)
(* Two clients of one canvas: the viewer, connected to the store by its    *)
(* socket and posting its drags, and a client of the API.                  *)
(***************************************************************************)
CollabBox   == Box("a", "rectangle", 10, 10, 100, 50)
CollabArrow == Arrow("ar1", Some(<<P(110, 35), P(300, 35)>>),
                     Some(ObjectBinding("a", "right")), None)

\* What the client of the API sends: the arrow relabelled, and the box recoloured.
ApiShapes ==
  {[CollabArrow EXCEPT !.label = Some(<<"v", "2">>)],
   [CollabBox EXCEPT !.fillColor = Some("#22c55e")]}
CollabCommands == {Command("update", Some(<<sh>>), None) : sh \in ApiShapes}

CollabClicks == {<<5, 5>>, <<500, 500>>}
CollabDeltas == {<<10, 10>>}

\* The canvas holds the box and the arrow (an add command stored them, and with them
\* the snapshot); the viewer's page is loaded and its socket not yet accepted.
InitCollab ==
  /\ doCanvas = [EmptyCanvas EXCEPT !.shapes = <<CollabBox, CollabArrow>>]
  /\ initialCanvas = Some(doCanvas)
  /\ sockets = [s \in Sessions |-> ClosedSocket]
  /\ inbox = <<>> /\ requests = <<>> /\ responses = 0
  /\ IdleRender /\ IdleCall /\ IdleViewer /\ IdleView

\* The viewer receives the next message of its socket.
ViewerReceive ==
  /\ inbox # <<>>
  /\ OnMessage(Head(inbox).canvas)
  /\ inbox' = Tail(inbox)
  /\ UNCHANGED <<doCanvas, initialCanvas, sockets, requests, responses, renderVars, callVars,
                 viewVars>>

\* The viewer's mouseup: the POST of a drag leaves for the store.
ViewerMouseUp ==
  /\ OnMouseUp
  /\ requests' = IF isDragging /\ IsSome(selectedShape)
                 THEN Append(requests, Command(posted'[1].action, Some(posted'[1].shapes),
                                               None))
                 ELSE requests
  /\ UNCHANGED <<doCanvas, initialCanvas, sockets, inbox, responses, renderVars, callVars,
                 viewVars>>

\* The draw route and the store handle the viewer's POST and answer it.
ViewerPostHandled ==
  /\ requests # <<>>
  /\ \E gen \in GenChoices : StorePost(GenerateIds(Head(requests), gen))
  /\ requests' = Tail(requests)
  /\ responses' = responses + 1
  /\ UNCHANGED <<renderVars, callVars, viewerVars, viewVars>>

\* The answer reaches the viewer: the mouseup handler runs to its end.
ViewerMouseUpDone ==
  /\ responses > 0
  /\ OnMouseUpDone
  /\ responses' = responses - 1
  /\ UNCHANGED <<doCanvas, initialCanvas, sockets, inbox, requests, renderVars, callVars,
                 viewVars>>

NextCollab ==
  \/ WebSocketUpgrade(Viewer)
  \/ ViewerReceive
  \/ \E m \in {"select", "pan"} : setMode(m)
  \/ \E pt \in CollabClicks : MouseDown(pt)
  \/ \E d \in CollabDeltas : MouseMove(d)
  \/ ViewerMouseUp
  \/ ViewerPostHandled
  \/ ViewerMouseUpDone
  \/ KeyEscape
  \/ \E cmd \in CollabCommands, gen \in GenChoices : PostDraw(cmd, gen)

SpecCollab == InitCollab /\ [][NextCollab]_vars

\* The viewer's canvas has the shape as the other client stored it, in what a drag
\* does not write (a drag writes x, y and points).
ViewerHasRead(shape) ==
  /\ IsSome(canvasState)
  /\ \E j \in 1..Len(canvasState[1].shapes) :
       canvasState[1].shapes[j] =
         [shape EXCEPT !.x = canvasState[1].shapes[j].x, !.y = canvasState[1].shapes[j].y,
                       !.points = canvasState[1].shapes[j].points]

\* C18: no write of another client takes effect between the viewer's read of the shape
\* list, on which it runs updateBoundArrows, and the store's application of the
\* viewer's update batch: the batch overwrites no change that the other client made
\* after the viewer last read the canvas.
C18_SingleWriter ==
  [][ViewerPostHandled =>
       \A i \in 1..Len(doCanvas.shapes) :
         (doCanvas.shapes[i] \in ApiShapes /\ ~ViewerHasRead(doCanvas.shapes[i]))
           => doCanvas'.shapes[i] = doCanvas.shapes[i]]_vars

(***************************************************************************)
(* The viewer's zoom: resetView, zoomIn, zoomOut, the wheel, and loadSvg,  *)
(* which reads the content bounds from the rendered document's viewBox.    *)
(* The keyboard shortcuts call resetView, zoomIn and zoomOut.  The pan     *)
(* offsets and the page's elements are left out.                           *)
(***************************************************************************)
MaxDenominator == 131072   \* zoom factors are followed while their denominator is at most this

MinZoom == Rat(5, 100)
MaxZoom == Num(10)

\* wrapper.getBoundingClientRect(): a hidden wrapper, a window, a large screen.
Rects == {[width |-> 0, height |-> 0], [width |-> 1200, height |-> 800],
          [width |-> 4000, height |-> 3000]}

\* Math.min(Math.max(z, 0.05), 10) of the wheel handler.
Clamp(z) == NumMin(NumMax(z, MinZoom), MaxZoom)

FitZoom(rect, bounds) ==
  LET contentW == NumSub(bounds.maxX, bounds.minX)
      contentH == NumSub(bounds.maxY, bounds.minY)
      zoomX == NumDiv(NumMul(Num(rect.width), Rat(85, 100)), contentW)
      zoomY == NumDiv(NumMul(Num(rect.height - 64), Rat(85, 100)), contentH)
  IN NumMax(NumMin(NumMin(zoomX, zoomY), Rat(15, 10)), Rat(1, 10))

\* The viewBox renderToSvg and renderToSvgHtml print for the shapes, as loadSvg reads
\* it back: minX, minY, maxX, maxY.
ViewBoxBounds(shapes, width, height) ==
  LET bounds   == calculateBounds(shapes, 500)
      contentW == NumSub(bounds.maxX, bounds.minX)
      contentH == NumSub(bounds.maxY, bounds.minY)
      vw       == NumMax(contentW, Num(width))
      vh       == NumMax(contentH, Num(height))
  IN [minX |-> bounds.minX, minY |-> bounds.minY,
      maxX |-> NumAdd(bounds.minX, vw), maxY |-> NumAdd(bounds.minY, vh)]

Max(a, b) == IF a < b THEN b ELSE a

\* The canvases of the zoom specification: empty, a rectangle, a rectangle and a far
\* one, and a line whose list of points is empty.
ZoomCanvases ==
  {[shapes |-> <<>>, backgroundColor |-> None],
   [shapes |-> <<Box("a", "rectangle", 10, 10, 100, 50)>>, backgroundColor |-> None],
   [shapes |-> <<Box("a", "rectangle", 10, 10, 100, 50),
                 Box("b", "ellipse", 3000, 2000, 100, 50)>>, backgroundColor |-> None],
   [shapes |-> <<[BaseShape("l", "line", 0, 0) EXCEPT !.points = Some(<<>>)]>>,
    backgroundColor |-> None]}

InitZoom ==
  /\ IdleRender /\ IdleCall /\ IdleViewer /\ IdleView /\ IdleStore

resetView(rect) ==
  /\ zoom' = FitZoom(rect, contentBounds)
  /\ UNCHANGED <<contentBounds, initialLoad, renderVars, callVars, viewerVars, storeVars>>

zoomIn ==
  /\ zoom' = NumMin(NumMul(zoom, Rat(125, 100)), MaxZoom)
  /\ zoom'.d <= MaxDenominator
  /\ UNCHANGED <<contentBounds, initialLoad, renderVars, callVars, viewerVars, storeVars>>

zoomOut ==
  /\ zoom' = NumMax(NumMul(zoom, Rat(8, 10)), MinZoom)
  /\ zoom'.d <= MaxDenominator
  /\ UNCHANGED <<contentBounds, initialLoad, renderVars, callVars, viewerVars, storeVars>>

\* The wheel handler; down is e.deltaY > 0.
Wheel(down) ==
  /\ zoom' = Clamp(NumMul(zoom, IF down THEN Rat(9, 10) ELSE Rat(11, 10)))
  /\ zoom'.d <= MaxDenominator
  /\ UNCHANGED <<contentBounds, initialLoad, renderVars, callVars, viewerVars, storeVars>>

\* A message of the socket with the canvas, and loadSvg in a wrapper of size rect.
LoadSvg(canvas, rect) ==
  /\ OnMessage(canvas)
  /\ contentBounds' = ViewBoxBounds(canvas.shapes, Max(rect.width * 2, 2400),
                                    Max(rect.height * 2, 1600))
  /\ IF initialLoad /\ Len(canvas.shapes) > 0
     THEN zoom' = FitZoom(rect, contentBounds') /\ initialLoad' = FALSE
     ELSE UNCHANGED <<zoom, initialLoad>>
  /\ UNCHANGED <<renderVars, callVars, storeVars>>

NextZoom ==
  \/ \E rect \in Rects : resetView(rect)
  \/ zoomIn
  \/ zoomOut
  \/ \E down \in BOOLEAN : Wheel(down)
  \/ \E canvas \in ZoomCanvases, rect \in Rects : LoadSvg(canvas, rect)

SpecZoom == InitZoom /\ [][NextZoom]_vars

InRange(z) == IsFinite(z) /\ ~NumLess(z, MinZoom) /\ ~NumLess(MaxZoom, z)

\* C19: after any sequence of viewer actions (wheel, zoomIn, zoomOut, resetView, the
\* keyboard shortcuts) the zoom factor is between 0.05 and 10 inclusive.
C19_ZoomRange == InRange(zoom)

\* What holds instead: the zoom factor is between 0.05 and 10 unless it is NaN.
C19_ZoomRangeOrNaN == IsNaN(zoom) \/ InRange(zoom)

(***************************************************************************)
(* The generator on its own: seededRandom(seed) and the calls of rand().   *)
(***************************************************************************)
MaxDraws == 12   \* calls of rand() followed on one generator

\* Integer seeds: sign and magnitude hi * 2^31 + lo.  0 and 1; a small seed; a
\* seed whose product is just below 2^53; the seeds that solve
\* seed * 1103515245 + 12345 = 0x7fffffff (mod 2^31) in exact arithmetic; the largest
\* 31-bit seed; a value of Date.now(); negative seeds.
Seed(neg, hi, lo) == [neg |-> neg, hi |-> hi, lo |-> lo]
RandSeeds ==
  {Seed(FALSE, 0, 0), Seed(FALSE, 0, 1), Seed(FALSE, 0, 42), Seed(FALSE, 0, 8162236),
   Seed(FALSE, 0, 230538014), Seed(FALSE, 0, 2147483647), Seed(FALSE, 820, 1047483648),
   Seed(FALSE, 1, 230538014),
   Seed(TRUE, 0, 1), Seed(TRUE, 0, 1916945634), Seed(TRUE, 0, 2147483647)}

\* The state after the first call of rand() on seededRandom(seed).
FirstState(seed) ==
  IF seed.neg THEN LcgNeg(seed.lo) ELSE seededRandom(<<seed.hi, seed.lo>>)

\* A generator is built: args is its seed, result the state and the value of the
\* last call of rand(), calls the number of calls.
InitRandom ==
  /\ args \in {Some(seed) : seed \in RandSeeds}
  /\ result = None
  /\ IdleRender /\ IdleViewer /\ IdleView /\ IdleStore

\* A call of rand().
rand ==
  /\ IsSome(result) => result[1].calls < MaxDraws
  /\ result' = Val({Some([state |-> st, value |-> Rat(st, LcgMask),
                          calls |-> IF IsSome(result) THEN result[1].calls + 1 ELSE 1]) :
                    st \in {IF IsSome(result) THEN Lcg(result[1].state)
                            ELSE FirstState(args[1])}})
  /\ UNCHANGED <<args, renderVars, viewerVars, viewVars, storeVars>>

NextRandom == rand

SpecRandom == InitRandom /\ [][NextRandom]_vars

\* C20: for every integer seed, every value the generator returns is at least 0 and
\* strictly less than 1, and its state stays within 31 bits.
C20_PrngRange ==
  IsSome(result) =>
    /\ ~NumLess(result[1].value, Num(0))
    /\ NumLess(result[1].value, Num(1))
    /\ result[1].state \in 0..LcgMask

\* The seed whose exact successor would be 0x7fffffff has been drawn from, to the end.
C20_Witness ==
  /\ args = Some(Seed(FALSE, 0, 230538014))
  /\ IsSome(result) /\ result[1].calls = MaxDraws
  /\ result[1].state > 0

(***************************************************************************)
(* The label of an arrow in the clean and pro styles, under the arrows     *)
(* below.                                                                  *)
(***************************************************************************)
LabelPath == <<P(0, 0), P(100, 0), P(100, 100), P(200, 100), P(200, 300)>>

\* Labelled arrows of 2 to 5 points at (5, 5); labelPosition is in percent.
LabelArrows ==
  {[BaseShape("s1", "arrow", 5, 5) EXCEPT
      !.points = Some(SubSeq(LabelPath, 1, n)), !.label = Some(<<"g", "o">>),
      !.labelPosition = f, !.labelOffset = o] :
     n \in 2..Len(LabelPath), f \in {None, Some(0), Some(25), Some(50), Some(100)},
     o \in {None, Some([x |-> 3, y |-> -4])}}

InitLabel ==
  /\ args \in {Some([fn |-> "arrowLabel", shape |-> sh, style |-> st]) :
                 sh \in LabelArrows, st \in {"clean", "pro"}}
  /\ result = None
  /\ IdleRender /\ IdleViewer /\ IdleView /\ IdleStore

\* The arrow is rendered by the style's builder; s is not drawn from.
CallLabel ==
  /\ IsSome(args) /\ args[1].fn = "arrowLabel"
  /\ result = None
  /\ result' = Some(IF args[1].style = "pro" THEN renderProShape(args[1].shape, FALSE)
                    ELSE renderShape(args[1].shape, StateOf(1), 100, FALSE, TRUE).svg)
  /\ UNCHANGED <<args, renderVars, viewerVars, viewVars, storeVars>>

NextLabel == CallLabel

SpecLabel == InitLabel /\ [][NextLabel]_vars

\* The point between a and b at t percent of the way.
Lerp(a, b, t) == Pt(a.x + ((b.x - a.x) * t) \div 100, a.y + ((b.y - a.y) * t) \div 100)

\* The point at the fractional index (n - 1) * f of pts, f in percent.
Bracketed(pts, f) ==
  LET n   == Len(pts)
      idx == ((n - 1) * f) \div 100
  IN Lerp(pts[Min2(idx, n - 1) + 1], pts[Min2(idx + 1, n - 1) + 1], ((n - 1) * f) % 100)

TextsOf(els) == {els[i] : i \in {j \in 1..Len(els) : els[j].tag = "text"}}

\* The label's text element is at the point at, moved by the label offset and raised by 8.
LabelIsAt(at) ==
  LET o == args[1].shape.labelOffset
      dx == IF IsSome(o) THEN H(o[1].x) ELSE 0
      dy == IF IsSome(o) THEN H(o[1].y) ELSE 0
  IN \A el \in TextsOf(result[1]) : el.x = at.x + dx /\ el.y = at.y + dy - H(8)

\* C21: the label of an arrow of n points at fraction f is at the interpolation of the
\* two endpoints when n = 2, at the literal middle point when n is odd and f = 0.5, and
\* in every other case (even n >= 4 with f = 0.5 included) at the interpolation between
\* the two points that bracket the fractional index (n - 1) * f; the label's offset is
\* added after that.
C21_LabelPosition ==
  (IsSome(args) /\ args[1].fn = "arrowLabel" /\ IsSome(result)) =>
    LET pts == OffsetPoints(args[1].shape)
        n   == Len(pts)
        f   == OrElse(args[1].shape.labelPosition, 50)
    IN /\ TextsOf(result[1]) # {}
       /\ LabelIsAt(IF n = 2 THEN Lerp(pts[1], pts[2], f)
                    ELSE IF n % 2 = 1 /\ f = 50 THEN pts[(n + 1) \div 2]
                    ELSE Bracketed(pts, f))

\* What holds: the same, but for an even n >= 4 with f = 0.5, where the label is at the
\* later of the two points next to the middle.
C21_LabelPositionSnapsToPoint ==
  (IsSome(args) /\ args[1].fn = "arrowLabel" /\ IsSome(result)) =>
    LET pts == OffsetPoints(args[1].shape)
        n   == Len(pts)
        f   == OrElse(args[1].shape.labelPosition, 50)
    IN /\ TextsOf(result[1]) # {}
       /\ LabelIsAt(IF n = 2 THEN Lerp(pts[1], pts[2], f)
                    ELSE IF n % 2 = 1 /\ f = 50 THEN pts[(n + 1) \div 2]
                    ELSE IF f = 50 THEN pts[n \div 2 + 1]
                    ELSE Bracketed(pts, f))

Init == InitRender \/ InitFont \/ InitBounds \/ InitAnchor \/ InitViewer \/ InitStore \/ InitCollab \/ InitZoom \/ InitRandom \/ InitLabel

Next == NextRender \/ NextFont \/ NextBounds \/ NextAnchor \/ NextViewer \/ NextStore \/ NextCollab \/ NextZoom \/ NextRandom \/ NextLabel

Spec == Init /\ [][Next]_vars
====
